---- MODULE Spec2Model ----
(***************************************************************************)
(* Model of the slate server's session core:                               *)
(*   - AuthService (src/server/src/infrastructure/auth/service.py):        *)
(*     session tokens and single-use, time-limited QR tokens;              *)
(*   - WebSocketHandler (src/server/src/presentation/websocket/handler.py):*)
(*     connection registry, per-message dispatch, broadcasts, heartbeat.   *)
(* SpecAuth runs the AuthService alone; Spec runs the WebSocket handler    *)
(* on a loaded token set.                                                  *)
(***************************************************************************)
EXTENDS Integers, Sequences, FiniteSets, TLC

(***************************************************************************)
(* Bounds of the model.                                                    *)
(***************************************************************************)
\* number of secrets.token_hex draws in one run (session and QR tokens)
MaxTok == 3
\* number of clock advances in one run
MaxTicks == 1
\* number of frames the websockets receive in one run
MaxFrames == 2
\* number of broadcast_* calls and rounds of the stats loop in one run
MaxRounds == 1
\* number of ping intervals the clock of SpecHeartbeat runs through
MaxBeats == 5
\* frames received in a behaviour of the buttons fan-out (SpecFanOut)
FanOutFrames == 3
MaxStarts == 2

(***************************************************************************)
(* Program constants.                                                      *)
(***************************************************************************)
DEFAULT_QR_TTL_SECONDS == 60
PING_INTERVAL_SECONDS == 30
PONG_TIMEOUT_SECONDS == 90

None == "None"

\* secrets.token_hex(16): the n-th draw. 128 random bits: every draw is a
\* value no earlier draw returned.
token_hex(n) == "t" \o ToString(n)

\* a token string no draw returns, as a client may present
Forged == "forged"

TokenIds == {token_hex(n) : n \in 1..MaxTok} \cup {Forged}

\* the clock is read at instants one eviction period apart: a connection
\* that was silent for a whole step is stale at the next heartbeat
ClockStep == PONG_TIMEOUT_SECONDS + PING_INTERVAL_SECONDS
MaxNow == ClockStep * MaxTicks

\* ttl_seconds arguments of issue_qr_token: not given (None, the default
\* applies) or a number of seconds
TtlArgs ==
    {[given |-> FALSE, seconds |-> 0]}
        \cup {[given |-> TRUE, seconds |-> s] : s \in {0, DEFAULT_QR_TTL_SECONDS}}

VARIABLES
    \* ---- AuthService ----
    tokens,             \* _tokens: set of session tokens
    qr_tokens,          \* _qr_tokens: token -> QRToken
    current_qr_token,   \* _current_qr_token
    drawn,              \* number of token_hex draws so far
    now,                \* time.time()
    token_file,         \* the file at _token_store_path
    \* ---- history of the AuthService calls ----
    lastCall,           \* the last call: [op, arg, ret, reason]
    issued,             \* session tokens returned by issue_token
    revoked,            \* tokens revoke_token was called with
    qr_history,         \* QR tokens returned by issue_qr_token, in order
    exchanges,          \* QR token -> number of successful exchanges
    superseded,         \* QR tokens that were outstanding, unused and
                        \* unexpired when a later QR token was issued
    \* ---- WebSocketHandler and its environment ----
    connections,        \* _connections: the keys, in insertion order
    info,               \* the ConnectionInfo object of each websocket
    sock,               \* transport state of each websocket
    ep,                 \* websocket_endpoint task of each websocket
    bc,                 \* a running broadcast_* call
    hb,                 \* the _heartbeat_loop task
    st,                 \* the _stats_broadcast_loop task
    profiles,           \* profile store: ids ordered by created_at
    sent,               \* the send_json that succeeded in the last step
    used,               \* frames received and broadcasts run so far, and
                        \* how many of each a behaviour may have
    \* ---- button store and HTTP routes ----
    buttons,            \* buttons table: profile id -> (button id -> label)
    response,           \* the response of the last HTTP call
    \* ---- the background tasks of the handler ----
    tasks,              \* _heartbeat_task and _stats_task, the loop tasks
                        \* alive and a stop_heartbeat call in progress
    threads             \* the issue_qr_token call in progress on the QR
                        \* refresh thread and on the event loop thread

authVars == <<tokens, qr_tokens, current_qr_token, drawn, now, token_file>>
histVars == <<lastCall, issued, revoked, qr_history, exchanges, superseded>>
wsVars == <<connections, info, sock, ep, bc, hb, st, profiles, sent, used>>
storeVars == <<buttons, response>>
taskVars == <<tasks, threads>>
vars == <<authVars, histVars, wsVars, storeVars, taskVars>>

(***************************************************************************)
(* AuthService: pure parts.                                                *)
(***************************************************************************)
QRToken(t, exp) == [token |-> t, expires_at |-> exp, used |-> FALSE]

NoQrTokens == [t \in {} |-> QRToken(None, 0)]

\* dict.pop(key, None)
Pop(d, key) == [k \in DOMAIN d \ {key} |-> d[k]]

\* dict[key] = value
Put(d, key, value) == [k \in DOMAIN d \cup {key} |-> IF k = key THEN value ELSE d[k]]

\* the token file before the first save: it does not exist
NoFile == [exists |-> FALSE, data |-> <<>>, whole |-> FALSE]

\* list(self._tokens): the tokens in some order
RECURSIVE Listing(_)
Listing(S) ==
    IF S = {} THEN <<>>
    ELSE LET token == CHOOSE t \in S : TRUE
         IN  <<token>> \o Listing(S \ {token})

\* _save_tokens: the file after json.dump({"tokens": list(self._tokens)})
_save_tokensNothing(S) == token_file
_save_tokens(S) == [exists |-> TRUE, data |-> Listing(S), whole |-> TRUE]

\* _load_tokens: set(data.get("tokens", [])) of an existing file; of a file
\* whose text is no whole JSON document (json.JSONDecodeError) the empty set
_load_tokens(file) ==
    IF file.exists /\ file.whole
    THEN {file.data[i] : i \in 1..Len(file.data)}
    ELSE {}

\* _save_tokens, lines 49-50: the files the save of S can leave behind when
\* the process stops inside it: the old file (before open), the file
\* truncated by open(path, "w") with some part of the text written, or the
\* new file (after the dump)
SaveStops(file, S) ==
    {file, _save_tokens(S)}
    \cup {[exists |-> TRUE, data |-> SubSeq(Listing(S), 1, n), whole |-> FALSE] :
             n \in 0..Cardinality(S)}

validate_token(token) ==
    IF token = None THEN FALSE ELSE token \in tokens

\* revoke_token, line 68: the token set after self._tokens.discard(token)
TokensAfterRevokeKeep(S, token) == S
TokensAfterRevoke(S, token) == S \ {token}

\* issue_qr_token, lines 84-85: the map after the previous current token
\* has been invalidated
QrAfterInvalidateKeep(q, cur) == q
QrAfterInvalidate(q, cur) ==
    IF cur # None THEN Pop(q, cur) ELSE q

\* exchange_qr_token, lines 100-116: the branch taken
ExchangeReason(q, t, time) ==
    IF t \notin DOMAIN q THEN "NotFound"
    ELSE IF q[t].used THEN "AlreadyUsed"
    ELSE IF time > q[t].expires_at THEN "Expired"
    ELSE "Ok"

\* exchange_qr_token, lines 112 and 115-116: the map the call leaves
QrAfterExchangeNoConsume(q, t, time) ==
    IF ExchangeReason(q, t, time) = "Expired" THEN Pop(q, t) ELSE q
QrAfterExchangeMarkOnly(q, t, time) ==
    CASE ExchangeReason(q, t, time) = "Expired" -> Pop(q, t)
      [] ExchangeReason(q, t, time) = "Ok" -> [q EXCEPT ![t].used = TRUE]
      [] OTHER -> q
QrAfterExchangeKeepExpired(q, t, time) ==
    IF ExchangeReason(q, t, time) = "Ok" THEN Pop(q, t) ELSE q
QrAfterExchange(q, t, time) ==
    CASE ExchangeReason(q, t, time) = "Expired" -> Pop(q, t)
      [] ExchangeReason(q, t, time) = "Ok" -> Pop([q EXCEPT ![t].used = TRUE], t)
      [] OTHER -> q

\* QR tokens in the map that are unused and unexpired at `time`
Outstanding(q, time) ==
    {t \in DOMAIN q : ~q[t].used /\ ~(time > q[t].expires_at)}

\* the token arguments a caller can present: the tokens drawn so far (it
\* cannot guess a later draw) and a forged one
Presentable == {token_hex(n) : n \in 1..drawn} \cup {Forged}

(***************************************************************************)
(* Initial state: a freshly constructed AuthService on an empty token      *)
(* store, clock at 0.                                                      *)
(***************************************************************************)
AuthInit ==
    /\ tokens = {}
    /\ token_file = NoFile
    /\ qr_tokens = NoQrTokens
    /\ current_qr_token = None
    /\ drawn = 0
    /\ now = 0

HistInit ==
    /\ lastCall = [op |-> "init", arg |-> None, ret |-> None, reason |-> None]
    /\ issued = {}
    /\ revoked = {}
    /\ qr_history = <<>>
    /\ exchanges = [t \in TokenIds |-> 0]
    /\ superseded = {}

(***************************************************************************)
(* WebSocketHandler: state.                                                *)
(***************************************************************************)
\* the websockets, named in the order in which they connect
SocketOrder == <<"ws1", "ws2">>

Sockets == {SocketOrder[i] : i \in 1..Len(SocketOrder)}

PROTOCOL_VERSION == "1.0"

\* "version" of a HELLO payload (a version that differs is only logged)
VersionArgs == {PROTOCOL_VERSION}

ProfileIds == {"A", "B"}

\* a profile id no profile of the store has
UnknownProfile == "ghost"

\* "profileId" of a payload or of a route: a profile id, an unknown one,
\* or absent
ProfileArgs == ProfileIds \cup {UnknownProfile, None}

\* "buttonId" of a payload: a button id or absent
ButtonArgs == {"b1", "b2", None}

\* the labels a ButtonDTO can carry
Labels == {"First", "Second"}

\* the buttons table the server starts on: profile A holds button b1
SeededButtons ==
    [p \in ProfileIds |->
        IF p = "A" THEN [b \in {"b1"} |-> "First"] ELSE [b \in {} |-> "First"]]

\* no HTTP call has been answered yet
NoResponse == [route |-> None, status |-> 0]

\* button_repository.get_all(profile_id): the ids of the profile's buttons
get_all_buttons(profile_id) ==
    IF profile_id \in DOMAIN buttons THEN DOMAIN buttons[profile_id] ELSE {}

\* button_repository.get_by_id(button_id, profile_id) is not None
get_button_by_id(button_id, profile_id) ==
    button_id \in get_all_buttons(profile_id)

\* ConnectionInfo(websocket) at time t (connected_at is written here and
\* never read: it is left out)
ConnectionInfo(t) ==
    [client_version |-> None, is_authenticated |-> FALSE,
     active_profile_id |-> None, last_pong |-> t]

\* create_message(msg_type, payload)
create_message(type, arg) == [type |-> type, arg |-> arg]

NoMessage == create_message(None, None)

\* websocket in self._connections
Registered(ws) == \E i \in 1..Len(connections) : connections[i] = ws

\* del self._connections[ws]
DeleteAll(conns, ws) == <<>>
Delete(conns, ws) == SelectSeq(conns, LAMBDA x : x # ws)

_is_authenticatedWhileValid(ws) ==
    Registered(ws) /\ info[ws].is_authenticated /\ tokens # {}
_is_authenticated(ws) == Registered(ws) /\ info[ws].is_authenticated

\* profile_repository.get_by_id(profile_id) is not None
ProfileExists(profile_id) == \E i \in 1..Len(profiles) : profiles[i] = profile_id

\* profile_repository.get_default_profile(): the id, or None
get_default_profile == IF Len(profiles) > 0 THEN profiles[1] ELSE None

\* the endpoint task of a websocket: where it is (pc, and the await it is
\* suspended at), the message it is about to send, a local and the
\* messages the handler of the current frame has sent so far
EpIdle(pc) ==
    [pc |-> pc, at |-> None, out |-> NoMessage, loc |-> None, log |-> <<>>]

BcIdle == [op |-> "idle", arg |-> None, todo |-> <<>>, at |-> None, out |-> NoMessage]

StIdle == [pc |-> "sleep", todo |-> <<>>]

NoSend ==
    [to |-> None, type |-> None, arg |-> None, by |-> None, auth |-> FALSE,
     at |-> None, log |-> <<>>]

\* the callers of issue_qr_token: qr_refresh_loop on its thread and
\* get_qr_token on the event loop
Callers == {"refresh", "route"}

\* no background task: both handles None (__init__, lines 48-49)
NoTasks ==
    [heartbeat_task |-> FALSE, stats_task |-> FALSE,
     ping_loops |-> 0, stats_loops |-> 0, starts |-> 0,
     stop |-> "idle", cancelled |-> {}]

\* the lifespan has called start_heartbeat once: one task of each loop
TasksRunning ==
    [NoTasks EXCEPT !.heartbeat_task = TRUE, !.stats_task = TRUE,
                    !.ping_loops = 1, !.stats_loops = 1, !.starts = 1]

\* the handler after construction, over a database that holds the profiles
\* `store` (oldest first); a behaviour receives at most `frames` frames and
\* runs at most `rounds` broadcasts
HandlerFields(store, frames, rounds) ==
    /\ threads = [caller \in Callers |-> [pc |-> "idle", token |-> None]]
    /\ connections = <<>>
    /\ info = [ws \in Sockets |-> ConnectionInfo(0)]
    /\ sock = [ws \in Sockets |-> "new"]
    /\ ep = [ws \in Sockets |-> EpIdle("new")]
    /\ bc = BcIdle
    /\ profiles = store
    /\ sent = NoSend
    /\ used = [frames |-> 0, rounds |-> 0,
               max_frames |-> frames, max_rounds |-> rounds]
    /\ buttons = SeededButtons
    /\ response = NoResponse

\* the handler once the lifespan has started its two loops at time 0
HandlerStart(store, frames, rounds) ==
    /\ HandlerFields(store, frames, rounds)
    /\ hb = [pc |-> "sleep", wake |-> PING_INTERVAL_SECONDS, todo |-> <<>>, t |-> 0]
    /\ st = StIdle
    /\ tasks = TasksRunning

HandlerInit(store) == HandlerStart(store, MaxFrames, MaxRounds)

WsInit == HandlerInit(<<"A", "B">>)

InitAuth == AuthInit /\ HistInit /\ WsInit

(***************************************************************************)
(* AuthService: operations.                                                *)
(***************************************************************************)
\* the clock moves on between calls
Tick ==
    /\ now + ClockStep <= MaxNow
    /\ now' = now + ClockStep
    /\ UNCHANGED <<tokens, qr_tokens, current_qr_token, drawn, token_file, histVars>>

issue_token ==
    /\ drawn < MaxTok
    /\ drawn' = drawn + 1
    /\ tokens' = tokens \cup {token_hex(drawn + 1)}
    /\ token_file' = _save_tokens(tokens')
    /\ issued' = issued \cup {token_hex(drawn + 1)}
    /\ lastCall' = [op |-> "issue_token", arg |-> None,
                    ret |-> token_hex(drawn + 1), reason |-> None]
    /\ UNCHANGED <<qr_tokens, current_qr_token, now,
                   revoked, qr_history, exchanges, superseded>>

ValidateToken(token) ==
    /\ lastCall' = [op |-> "validate_token", arg |-> token,
                    ret |-> validate_token(token), reason |-> None]
    /\ UNCHANGED <<authVars, issued, revoked, qr_history, exchanges, superseded>>

revoke_token(token) ==
    /\ tokens' = IF token \in tokens THEN TokensAfterRevoke(tokens, token) ELSE tokens
    /\ token_file' = IF token \in tokens THEN _save_tokens(tokens') ELSE token_file
    /\ revoked' = revoked \cup {token}
    /\ lastCall' = [op |-> "revoke_token", arg |-> token,
                    ret |-> (token \in tokens), reason |-> None]
    /\ UNCHANGED <<qr_tokens, current_qr_token, drawn, now,
                   issued, qr_history, exchanges, superseded>>

issue_qr_token(ttl_arg) ==
    LET ttl_seconds == IF ~ttl_arg.given THEN DEFAULT_QR_TTL_SECONDS
                       ELSE ttl_arg.seconds
        kept == QrAfterInvalidate(qr_tokens, current_qr_token)
        token == token_hex(drawn + 1)
    IN  /\ drawn < MaxTok
        /\ drawn' = drawn + 1
        /\ qr_tokens' = Put(kept, token, QRToken(token, now + ttl_seconds))
        /\ current_qr_token' = token
        /\ qr_history' = Append(qr_history, token)
        /\ superseded' = superseded \cup Outstanding(qr_tokens, now)
        /\ lastCall' = [op |-> "issue_qr_token", arg |-> ttl_arg,
                        ret |-> token, reason |-> None]
        /\ UNCHANGED <<tokens, token_file, now, issued, revoked, exchanges>>

exchange_qr_token(qr_token) ==
    LET reason == ExchangeReason(qr_tokens, qr_token, now)
        session_token == token_hex(drawn + 1)
    IN  /\ reason = "Ok" => drawn < MaxTok
        /\ qr_tokens' = QrAfterExchange(qr_tokens, qr_token, now)
        /\ IF reason = "Ok"
           THEN \* self.issue_token()
                /\ drawn' = drawn + 1
                /\ tokens' = tokens \cup {session_token}
                /\ token_file' = _save_tokens(tokens')
                /\ issued' = issued \cup {session_token}
                /\ exchanges' = [exchanges EXCEPT ![qr_token] = @ + 1]
                /\ lastCall' = [op |-> "exchange_qr_token", arg |-> qr_token,
                                ret |-> session_token, reason |-> reason]
           ELSE /\ lastCall' = [op |-> "exchange_qr_token", arg |-> qr_token,
                                ret |-> None, reason |-> reason]
                /\ UNCHANGED <<drawn, tokens, token_file, issued, exchanges>>
        /\ UNCHANGED <<current_qr_token, now, revoked, qr_history, superseded>>

cleanup_expired_qr_tokens ==
    LET expired == {t \in DOMAIN qr_tokens : now > qr_tokens[t].expires_at}
    IN  /\ qr_tokens' = [t \in DOMAIN qr_tokens \ expired |-> qr_tokens[t]]
        /\ lastCall' = [op |-> "cleanup_expired_qr_tokens", arg |-> None,
                        ret |-> Cardinality(expired), reason |-> None]
        /\ UNCHANGED <<tokens, token_file, current_qr_token, drawn, now,
                       issued, revoked, qr_history, exchanges, superseded>>

AuthNext ==
    \/ Tick
    \/ issue_token
    \/ \E t \in Presentable \cup {None} : ValidateToken(t)
    \/ \E t \in Presentable : revoke_token(t)
    \/ \E ttl \in TtlArgs : issue_qr_token(ttl)
    \/ \E t \in Presentable : exchange_qr_token(t)
    \/ cleanup_expired_qr_tokens

SpecAuth ==
    InitAuth /\ [][AuthNext /\ UNCHANGED <<wsVars, storeVars, taskVars>>]_vars

\* the process ends and a new AuthService is constructed on the same token
\* file (__init__, lines 26-31): the session tokens are loaded, the QR
\* tokens start empty
Restart ==
    /\ tokens' = _load_tokens(token_file)
    /\ qr_tokens' = NoQrTokens
    /\ current_qr_token' = None
    /\ lastCall' = [op |-> "restart", arg |-> None, ret |-> None, reason |-> None]
    /\ UNCHANGED <<token_file, drawn, now,
                   issued, revoked, qr_history, exchanges, superseded>>

RestartNext == AuthNext \/ Restart

SpecRestart ==
    InitAuth /\ [][RestartNext /\ UNCHANGED <<wsVars, storeVars, taskVars>>]_vars

\* the process stops inside the _save_tokens of an issue_token (draws = 1)
\* or of a revoke_token (draws = 0) that was saving the set S, and a new
\* AuthService is constructed on the file it left
StopInSave(S, draws) ==
    /\ \E file \in SaveStops(token_file, S) :
          /\ token_file' = file
          /\ tokens' = _load_tokens(file)
    /\ drawn' = drawn + draws
    /\ qr_tokens' = NoQrTokens
    /\ current_qr_token' = None
    /\ lastCall' = [op |-> "restart", arg |-> None, ret |-> None, reason |-> "save"]
    /\ UNCHANGED <<now, issued, revoked, qr_history, exchanges, superseded>>

CrashNext ==
    \/ RestartNext
    \/ drawn < MaxTok /\ StopInSave(tokens \cup {token_hex(drawn + 1)}, 1)
    \/ \E token \in tokens : StopInSave(TokensAfterRevoke(tokens, token), 0)

SpecCrash ==
    InitAuth /\ [][CrashNext /\ UNCHANGED <<wsVars, storeVars, taskVars>>]_vars

(***************************************************************************)
(* issue_qr_token called from the QR refresh thread and from the event     *)
(* loop on the one AuthService (main.py 245-250, routes.py 233-237), with  *)
(* no lock: the threads are switched between the statements of the call.   *)
(* The route and exchange_qr_token both run on the event loop.             *)
(***************************************************************************)
\* issue_qr_token, lines 84-85: the previous QR token is invalidated
QrInvalidate(caller) ==
    /\ threads[caller].pc = "idle"
    /\ drawn < MaxTok
    /\ qr_tokens' = QrAfterInvalidate(qr_tokens, current_qr_token)
    /\ threads' = [threads EXCEPT ![caller].pc = "invalidated"]
    /\ UNCHANGED <<tokens, token_file, current_qr_token, drawn, now, histVars>>

\* issue_qr_token, lines 87-89: the new token is stored
QrInsert(caller) ==
    LET token == token_hex(drawn + 1)
    IN  /\ threads[caller].pc = "invalidated"
        /\ drawn < MaxTok
        /\ drawn' = drawn + 1
        /\ qr_tokens' = Put(qr_tokens, token, QRToken(token, now + DEFAULT_QR_TTL_SECONDS))
        /\ threads' = [threads EXCEPT ![caller] = [pc |-> "inserted", token |-> token]]
        /\ UNCHANGED <<tokens, token_file, current_qr_token, now, histVars>>

\* issue_qr_token, lines 90-93: the new token becomes the current one and
\* is returned
QrPublish(caller) ==
    LET token == threads[caller].token
    IN  /\ threads[caller].pc = "inserted"
        /\ current_qr_token' = token
        /\ threads' = [threads EXCEPT ![caller] = [pc |-> "idle", token |-> None]]
        /\ qr_history' = Append(qr_history, token)
        /\ superseded' = superseded \cup (Outstanding(qr_tokens, now) \ {token})
        /\ lastCall' = [op |-> "issue_qr_token", arg |-> caller,
                        ret |-> token, reason |-> None]
        /\ UNCHANGED <<tokens, token_file, qr_tokens, drawn, now,
                       issued, revoked, exchanges>>

QrRaceNext ==
    \/ \E caller \in Callers : QrInvalidate(caller)
    \/ \E caller \in Callers : QrInsert(caller)
    \/ \E caller \in Callers : QrPublish(caller)
    \/ /\ threads["route"].pc = "idle"
       /\ \E t \in Presentable : exchange_qr_token(t)
       /\ UNCHANGED threads
    \/ Tick /\ UNCHANGED threads

SpecQrRace ==
    InitAuth /\ [][QrRaceNext /\ UNCHANGED <<wsVars, storeVars, tasks>>]_vars

(***************************************************************************)
(* WebSocketHandler: the endpoint task of one websocket.  A step runs the  *)
(* code from one suspension point (receive_text, send_json) to the next.   *)
(***************************************************************************)
authOther ==
    <<authVars, histVars, storeVars, taskVars>>

\* the record of a send_json that succeeded
Sent(ws, message, by) ==
    [NoSend EXCEPT !.to = ws, !.type = message.type, !.arg = message.arg,
                   !.by = by, !.auth = info[ws].is_authenticated]

\* the endpoint task suspended in send_json(out) at the await `at`
Await(at, out, loc) ==
    [pc |-> "send", at |-> at, out |-> out, loc |-> loc, log |-> <<>>]

\* _send_error(websocket, message)
ErrorMessageSilent(text) == NoMessage
ErrorMessage(text) == create_message("ERROR", text)

\* the endpoint task is suspended in receive_text and a frame can arrive
ReceivingAnytime(ws) ==
    ep[ws].pc \in {"recv", "send"} /\ sock[ws] = "open"
    /\ used.frames < used.max_frames
Receiving(ws) ==
    ep[ws].pc = "recv" /\ sock[ws] = "open" /\ used.frames < used.max_frames

\* websocket_endpoint / connect: accept, then register
Connect(ws) ==
    /\ sock[ws] = "new"
    /\ \A i \in 1..Len(SocketOrder) :
          SocketOrder[i] = ws \/ sock[SocketOrder[i]] # "new"
          \/ \E j \in 1..(i - 1) : SocketOrder[j] = ws
    /\ sock' = [sock EXCEPT ![ws] = "open"]
    /\ connections' = Append(connections, ws)
    /\ info' = [info EXCEPT ![ws] = ConnectionInfo(now)]
    /\ ep' = [ep EXCEPT ![ws] = EpIdle("recv")]
    /\ UNCHANGED <<authOther, bc, hb, st, profiles, used>>
    /\ sent' = NoSend

\* the peer closes or the transport breaks: every later send fails and
\* receive_text raises WebSocketDisconnect
ClientClose(ws) ==
    /\ sock[ws] = "open"
    /\ sock' = [sock EXCEPT ![ws] = "broken"]
    /\ UNCHANGED <<authOther, connections, info, ep, bc, hb, st, profiles, used>>
    /\ sent' = NoSend

\* websocket_endpoint: receive_text raises WebSocketDisconnect; disconnect
EndpointDisconnect(ws) ==
    /\ ep[ws].pc = "recv"
    /\ sock[ws] \in {"broken", "closed"}
    /\ connections' = Delete(connections, ws)
    /\ ep' = [ep EXCEPT ![ws] = EpIdle("ended")]
    /\ UNCHANGED <<authOther, info, sock, bc, hb, st, profiles, used>>
    /\ sent' = NoSend

\* _handle_hello, lines 194-195 and 209-211: is_authenticated afterwards
FlagAfterHelloAlways(flag, valid) == TRUE
FlagAfterHelloReset(flag, valid) == valid
FlagAfterHello(flag, valid) == IF valid THEN TRUE ELSE flag

\* _handle_hello, lines 198-201: active_profile_id afterwards
ProfileAfterHelloStay(active, valid) == active
ProfileAfterHelloDefault(active, valid) ==
    IF valid THEN get_default_profile ELSE active
ProfileAfterHello(active, valid) ==
    IF valid /\ active = None THEN get_default_profile ELSE active

\* handle_message, HELLO: _handle_hello up to its first send
RecvHello(ws, token, version) ==
    LET valid == validate_token(token)
    IN  /\ Receiving(ws)
        /\ IF Registered(ws)
           THEN /\ info' = [info EXCEPT
                       ![ws].client_version = version,
                       ![ws].is_authenticated = FlagAfterHello(@, valid),
                       ![ws].active_profile_id = ProfileAfterHello(@, valid)]
                /\ ep' = [ep EXCEPT ![ws] =
                       IF valid
                       THEN Await("hello_welcome",
                                  create_message("WELCOME", PROTOCOL_VERSION), None)
                       ELSE Await("single",
                                  create_message("AUTH_REQUIRED", None), None)]
           ELSE /\ info' = info
                /\ ep' = [ep EXCEPT ![ws] =
                       IF valid
                       THEN Await("error_reply", ErrorMessage("KeyError"), None)
                       ELSE Await("single",
                                  create_message("AUTH_REQUIRED", None), None)]
        /\ UNCHANGED <<authOther, connections, sock, bc, hb, st, profiles>>
        /\ used' = [used EXCEPT !.frames = @ + 1]
        /\ sent' = NoSend

\* the message types whose handler starts with the _is_authenticated check
RequiresAuthButProfiles == {"BUTTON_PRESSED", "GET_BUTTONS", "SWITCH_PROFILE"}
RequiresAuth == {"BUTTON_PRESSED", "GET_BUTTONS", "GET_PROFILES", "SWITCH_PROFILE"}

\* the reply of a handler to a connection that fails its check, if any
Refused(ws, type) == type \in RequiresAuth /\ ~_is_authenticated(ws)

\* _send_buttons_list: the message (the list is that of the active profile,
\* empty without one)
ButtonsList(ws) == create_message("BUTTONS_LIST", info[ws].active_profile_id)

\* _handle_button_pressed, lines 222-240: the reply
ButtonPressedReplyAsResult(ws, button_id) ==
    IF button_id = None THEN ErrorMessage("Missing buttonId")
    ELSE create_message("ACTION_RESULT", button_id)
ButtonPressedReply(ws, button_id) ==
    LET profile_id == info[ws].active_profile_id
    IN  IF button_id = None THEN ErrorMessage("Missing buttonId")
        ELSE IF profile_id = None THEN ErrorMessage("No active profile")
        ELSE IF ~get_button_by_id(button_id, profile_id)
             THEN ErrorMessage("Button not found")
        ELSE create_message("ACTION_RESULT", button_id)

\* ExecuteActionUseCase.execute: the status of the outcome it returns
\* ("error" without an executor for the action type, when the executor
\* raises, or when the executor reports one)
ExecuteOutcomes == {"success", "error"}

\* _handle_button_pressed, lines 218-239: whether line 239 (execute) is
\* reached
ExecutesAnyProfile(ws, button_id) ==
    /\ ~Refused(ws, "BUTTON_PRESSED")
    /\ \E profile_id \in ProfileIds : get_button_by_id(button_id, profile_id)
Executes(ws, button_id) ==
    /\ ~Refused(ws, "BUTTON_PRESSED")
    /\ ButtonPressedReply(ws, button_id).type = "ACTION_RESULT"

\* handle_message, BUTTON_PRESSED: _handle_button_pressed up to its send;
\* `loc` is the status of `result`, the payload of the ACTION_RESULT, when
\* execute was called
RecvButtonPressed(ws, button_id) ==
    /\ Receiving(ws)
    /\ \E status \in ExecuteOutcomes :
          ep' = [ep EXCEPT ![ws] =
             IF Refused(ws, "BUTTON_PRESSED")
             THEN Await("single", ErrorMessage("Not authenticated"), None)
             ELSE Await("single", ButtonPressedReply(ws, button_id),
                        IF Executes(ws, button_id) THEN status ELSE None)]
    /\ UNCHANGED <<authOther, connections, info, sock, bc, hb, st, profiles>>
    /\ used' = [used EXCEPT !.frames = @ + 1]
    /\ sent' = NoSend

\* handle_message, GET_BUTTONS
RecvGetButtons(ws) ==
    /\ Receiving(ws)
    /\ ep' = [ep EXCEPT ![ws] =
           IF Refused(ws, "GET_BUTTONS")
           THEN Await("single", ErrorMessage("Not authenticated"), None)
           ELSE Await("single", ButtonsList(ws), None)]
    /\ UNCHANGED <<authOther, connections, info, sock, bc, hb, st, profiles>>
    /\ used' = [used EXCEPT !.frames = @ + 1]
    /\ sent' = NoSend

\* handle_message, GET_PROFILES
RecvGetProfiles(ws) ==
    /\ Receiving(ws)
    /\ ep' = [ep EXCEPT ![ws] =
           IF Refused(ws, "GET_PROFILES")
           THEN Await("single", ErrorMessage("Not authenticated"), None)
           ELSE Await("single", create_message("PROFILES_LIST", None), None)]
    /\ UNCHANGED <<authOther, connections, info, sock, bc, hb, st, profiles>>
    /\ used' = [used EXCEPT !.frames = @ + 1]
    /\ sent' = NoSend

\* _handle_switch_profile, line 286: the ConnectionInfo objects afterwards
InfoAfterSwitchAll(ws, profile_id) ==
    [c \in Sockets |-> [info[c] EXCEPT !.active_profile_id = profile_id]]
InfoAfterSwitchKeep(ws, profile_id) == info
InfoAfterSwitchRefresh(ws, profile_id) ==
    [info EXCEPT ![ws].active_profile_id = profile_id, ![ws].last_pong = now]
InfoAfterSwitch(ws, profile_id) ==
    [info EXCEPT ![ws].active_profile_id = profile_id]

\* handle_message, SWITCH_PROFILE: _handle_switch_profile up to its first send
RecvSwitchProfile(ws, profile_id) ==
    /\ Receiving(ws)
    /\ IF Refused(ws, "SWITCH_PROFILE")
       THEN /\ ep' = [ep EXCEPT ![ws] =
                  Await("single", ErrorMessage("Not authenticated"), None)]
            /\ info' = info
       ELSE IF profile_id = None
       THEN /\ ep' = [ep EXCEPT ![ws] =
                  Await("single", ErrorMessage("Missing profileId"), None)]
            /\ info' = info
       ELSE IF ~ProfileExists(profile_id)
       THEN /\ ep' = [ep EXCEPT ![ws] =
                  Await("single", ErrorMessage("Profile not found"), None)]
            /\ info' = info
       ELSE /\ info' = InfoAfterSwitch(ws, profile_id)
            /\ ep' = [ep EXCEPT ![ws] =
                  Await("switch_buttons",
                        create_message("BUTTONS_LIST", profile_id), profile_id)]
    /\ UNCHANGED <<authOther, connections, sock, bc, hb, st, profiles>>
    /\ used' = [used EXCEPT !.frames = @ + 1]
    /\ sent' = NoSend

\* handle_message, PONG: _handle_pong (no await, no reply)
RecvPong(ws) ==
    /\ Receiving(ws)
    /\ info' = IF Registered(ws) THEN [info EXCEPT ![ws].last_pong = now] ELSE info
    /\ ep' = [ep EXCEPT ![ws] = EpIdle("recv")]
    /\ UNCHANGED <<authOther, connections, sock, bc, hb, st, profiles>>
    /\ used' = [used EXCEPT !.frames = @ + 1]
    /\ sent' = NoSend

\* handle_message, any other type: logged, no reply
RecvUnknownType(ws) ==
    /\ Receiving(ws)
    /\ ep' = [ep EXCEPT ![ws] = EpIdle("recv")]
    /\ UNCHANGED <<authOther, connections, info, sock, bc, hb, st, profiles>>
    /\ used' = [used EXCEPT !.frames = @ + 1]
    /\ sent' = NoSend

\* frames that make handle_message raise
MalformedKinds ==
    {"INVALID_JSON", "NOT_OBJECT", "HELLO_BAD_PAYLOAD",
     "BUTTON_BAD_PAYLOAD", "SWITCH_BAD_PAYLOAD"}

\* handle_message on a frame that is no JSON text (json.loads raises), on a
\* JSON value that is no object (message.get raises) or on a payload that is
\* no object (payload.get raises)
RecvMalformed(ws, kind) ==
    /\ Receiving(ws)
    /\ ep' = [ep EXCEPT ![ws] =
           CASE kind = "INVALID_JSON" ->
                    Await("json_error", ErrorMessage("Invalid JSON"), None)
             [] kind = "BUTTON_BAD_PAYLOAD" /\ Refused(ws, "BUTTON_PRESSED") ->
                    Await("single", ErrorMessage("Not authenticated"), None)
             [] kind = "SWITCH_BAD_PAYLOAD" /\ Refused(ws, "SWITCH_PROFILE") ->
                    Await("single", ErrorMessage("Not authenticated"), None)
             [] OTHER ->
                    Await("error_reply", ErrorMessage("AttributeError"), None)]
    /\ UNCHANGED <<authOther, connections, info, sock, bc, hb, st, profiles>>
    /\ used' = [used EXCEPT !.frames = @ + 1]
    /\ sent' = NoSend

\* _handle_hello, lines 203-208: the await that follows the await `at`
HelloFollowUpSwapped(at) ==
    CASE at = "hello_welcome" -> "hello_buttons"
      [] at = "hello_buttons" -> "hello_profiles"
      [] OTHER -> None
HelloFollowUp(at) ==
    CASE at = "hello_welcome" -> "hello_profiles"
      [] at = "hello_profiles" -> "hello_buttons"
      [] OTHER -> None

\* the endpoint task once send_json(out) has returned: at its next await,
\* or back in receive_text
AfterSend(ws) ==
    LET e == [ep[ws] EXCEPT !.log = Append(@, ep[ws].out.type)]
        next == HelloFollowUp(e.at)
    IN  IF next = "hello_profiles"
        THEN [e EXCEPT !.at = next, !.out = create_message("PROFILES_LIST", None)]
        ELSE IF next = "hello_buttons"
        THEN IF Registered(ws)
             THEN [e EXCEPT !.at = next, !.out = ButtonsList(ws)]
             ELSE [e EXCEPT !.at = "error_reply", !.out = ErrorMessage("KeyError")]
        ELSE IF e.at = "switch_buttons"
        THEN [e EXCEPT !.at = "single",
                       !.out = create_message("PROFILE_SWITCHED", e.loc)]
        ELSE EpIdle("recv")

\* a handler's send_json returns
HandlerSend(ws) ==
    /\ ep[ws].pc = "send"
    /\ sock[ws] = "open"
    /\ sent' = [Sent(ws, ep[ws].out, "handler") EXCEPT
                    !.at = ep[ws].at,
                    !.log = Append(ep[ws].log, ep[ws].out.type)]
    /\ ep' = [ep EXCEPT ![ws] = AfterSend(ws)]
    /\ UNCHANGED <<authOther, connections, info, sock, bc, hb, st, profiles, used>>

\* how the endpoint task can end when a handler's send_json raises: inside
\* the try the exception is caught and _send_error raises again, which the
\* endpoint does not catch; raised by the _send_error of an except clause on
\* a broken transport it may be a WebSocketDisconnect, which the endpoint
\* answers with disconnect
SendFailureEnds(ws) ==
    IF ep[ws].at \in {"json_error", "error_reply"} /\ sock[ws] = "broken"
    THEN {"crashed", "ended"}
    ELSE {"crashed"}

\* a handler's send_json raises
HandlerSendFail(ws) ==
    /\ ep[ws].pc = "send"
    /\ sock[ws] # "open"
    /\ \E how \in SendFailureEnds(ws) :
          /\ ep' = [ep EXCEPT ![ws] = EpIdle(how)]
          /\ connections' = IF how = "ended" THEN Delete(connections, ws)
                            ELSE connections
    /\ UNCHANGED <<authOther, info, sock, bc, hb, st, profiles, used>>
    /\ sent' = NoSend

EndpointNext ==
    \/ \E ws \in Sockets : Connect(ws)
    \/ \E ws \in Sockets : ClientClose(ws)
    \/ \E ws \in Sockets : EndpointDisconnect(ws)
    \/ \E ws \in Sockets, token \in Presentable \cup {None}, version \in VersionArgs :
          RecvHello(ws, token, version)
    \/ \E ws \in Sockets, button_id \in ButtonArgs : RecvButtonPressed(ws, button_id)
    \/ \E ws \in Sockets : RecvGetButtons(ws)
    \/ \E ws \in Sockets : RecvGetProfiles(ws)
    \/ \E ws \in Sockets, profile_id \in ProfileArgs : RecvSwitchProfile(ws, profile_id)
    \/ \E ws \in Sockets : RecvPong(ws)
    \/ \E ws \in Sockets : RecvUnknownType(ws)
    \/ \E ws \in Sockets, kind \in MalformedKinds : RecvMalformed(ws, kind)
    \/ \E ws \in Sockets : HandlerSend(ws)
    \/ \E ws \in Sockets : HandlerSendFail(ws)

(***************************************************************************)
(* WebSocketHandler: broadcasts and the stats loop.  Each iterates over    *)
(* list(self._connections.items()), a snapshot of the keys with the live   *)
(* ConnectionInfo objects, and suspends in every send_json.                *)
(***************************************************************************)
\* broadcast_buttons_update, line 306
TargetProfileDefault(profile_id, ws) ==
    IF profile_id # None THEN profile_id ELSE get_default_profile
TargetProfile(profile_id, ws) ==
    IF profile_id # None THEN profile_id ELSE info[ws].active_profile_id

\* whether the loop body of a broadcast sends to a snapshot entry
EligibleAll(ws, op, arg) == TRUE
Eligible(ws, op, arg) ==
    IF op = "buttons"
    THEN info[ws].is_authenticated /\ TargetProfile(arg, ws) # None
    ELSE info[ws].is_authenticated

\* the rest of a snapshot from the first entry the loop body sends to
RECURSIVE SkipIneligible(_, _, _)
SkipIneligible(todo, op, arg) ==
    IF todo = <<>> THEN <<>>
    ELSE IF Eligible(Head(todo), op, arg) THEN todo
    ELSE SkipIneligible(Tail(todo), op, arg)

\* the first message a broadcast sends to a snapshot entry
BroadcastMessage(op, arg, ws) ==
    CASE op = "buttons" -> create_message("BUTTONS_LIST", TargetProfile(arg, ws))
      [] op = "profiles" -> create_message("PROFILES_LIST", None)
      [] op = "switch" -> create_message("PROFILE_SWITCHED", arg)
      [] op = "stats" -> create_message("SYSTEM_STATS", None)

\* the broadcast suspended in its first send to the first eligible entry of
\* `todo`, or finished if there is none
BroadcastAt(op, arg, todo) ==
    LET rest == SkipIneligible(todo, op, arg)
    IN  IF rest = <<>> THEN BcIdle
        ELSE [op |-> op, arg |-> arg, todo |-> rest, at |-> "first",
              out |-> BroadcastMessage(op, arg, Head(rest))]

\* broadcast_profile_switch, line 345: the entry the loop has reached gets
\* the profile
InfoAtEntryKeep(b) == info
InfoAtEntryAnyBroadcast(b) ==
    IF b.op # "idle"
    THEN [info EXCEPT ![Head(b.todo)].active_profile_id = b.arg]
    ELSE info
InfoAtEntry(b) ==
    IF b.op = "switch"
    THEN [info EXCEPT ![Head(b.todo)].active_profile_id = b.arg]
    ELSE info

\* a broadcast_* call runs up to its first send
BroadcastStart(op, arg) ==
    /\ bc.op = "idle"
    /\ used.rounds < used.max_rounds
    /\ connections # <<>>
    /\ op = "switch" => ProfileExists(arg)
    /\ op = "profiles" => arg = None
    /\ bc' = BroadcastAt(op, arg, connections)
    /\ info' = InfoAtEntry(bc')
    /\ UNCHANGED <<authOther, connections, sock, ep, hb, st, profiles>>
    /\ used' = [used EXCEPT !.rounds = @ + 1]
    /\ sent' = NoSend

\* the broadcast after its send to the head of the snapshot returned
\* (delivered) or raised: broadcast_profile_switch sends the buttons list
\* after a delivered PROFILE_SWITCHED, otherwise the loop moves on
BroadcastAfter(delivered) ==
    IF bc.op = "switch" /\ bc.at = "first" /\ delivered
    THEN [bc EXCEPT !.at = "second",
                    !.out = create_message("BUTTONS_LIST", bc.arg)]
    ELSE BroadcastAt(bc.op, bc.arg, Tail(bc.todo))

\* a broadcast's send_json returns
BroadcastSend ==
    /\ bc.op # "idle"
    /\ sock[Head(bc.todo)] = "open"
    /\ sent' = Sent(Head(bc.todo), bc.out, bc.op)
    /\ bc' = BroadcastAfter(TRUE)
    /\ info' = IF bc'.at = "first" THEN InfoAtEntry(bc') ELSE info
    /\ UNCHANGED <<authOther, connections, sock, ep, hb, st, profiles, used>>

\* a broadcast's send_json raises: swallowed
BroadcastSendFail ==
    /\ bc.op # "idle"
    /\ sock[Head(bc.todo)] # "open"
    /\ bc' = BroadcastAfter(FALSE)
    /\ info' = IF bc'.at = "first" THEN InfoAtEntry(bc') ELSE info
    /\ UNCHANGED <<authOther, connections, sock, ep, hb, st, profiles, used>>
    /\ sent' = NoSend

BroadcastNext ==
    \/ \E profile_id \in ProfileArgs : BroadcastStart("buttons", profile_id)
    \/ BroadcastStart("profiles", None)
    \/ \E profile_id \in ProfileIds \cup {UnknownProfile} :
          BroadcastStart("switch", profile_id)
    \/ BroadcastSend
    \/ BroadcastSendFail

\* _stats_broadcast_loop: sleep(1) is over; _broadcast_stats up to its
\* first send
StatsWake ==
    /\ st.pc = "sleep"
    /\ used.rounds < used.max_rounds
    /\ connections # <<>>
    /\ SkipIneligible(connections, "stats", None) # <<>>
    /\ st' = [pc |-> "send", todo |-> SkipIneligible(connections, "stats", None)]
    /\ UNCHANGED <<authOther, connections, info, sock, ep, bc, hb, profiles>>
    /\ used' = [used EXCEPT !.rounds = @ + 1]
    /\ sent' = NoSend

\* the stats loop after a send: at the next eligible entry, or asleep
StatsAfter ==
    LET rest == SkipIneligible(Tail(st.todo), "stats", None)
    IN  IF rest = <<>> THEN StIdle ELSE [pc |-> "send", todo |-> rest]

\* _broadcast_stats: send_json returns
StatsSend ==
    /\ st.pc = "send"
    /\ sock[Head(st.todo)] = "open"
    /\ sent' = Sent(Head(st.todo), BroadcastMessage("stats", None, Head(st.todo)), "stats")
    /\ st' = StatsAfter
    /\ UNCHANGED <<authOther, connections, info, sock, ep, bc, hb, profiles, used>>

\* _broadcast_stats: send_json raises: swallowed
StatsSendFail ==
    /\ st.pc = "send"
    /\ sock[Head(st.todo)] # "open"
    /\ st' = StatsAfter
    /\ UNCHANGED <<authOther, connections, info, sock, ep, bc, hb, profiles, used>>
    /\ sent' = NoSend

StatsNext == StatsWake \/ StatsSend \/ StatsSendFail

(***************************************************************************)
(* WebSocketHandler: the heartbeat loop.                                   *)
(***************************************************************************)
\* _cleanup_stale_connections, line 127
StaleLate(ws, t) ==
    t - info[ws].last_pong > PONG_TIMEOUT_SECONDS + PING_INTERVAL_SECONDS
StaleGe(ws, t) == t - info[ws].last_pong >= PONG_TIMEOUT_SECONDS
Stale(ws, t) == t - info[ws].last_pong > PONG_TIMEOUT_SECONDS

\* the rest of the sweep's snapshot from its first stale entry
RECURSIVE SkipFresh(_, _)
SkipFresh(todo, t) ==
    IF todo = <<>> THEN <<>>
    ELSE IF Stale(Head(todo), t) THEN todo
    ELSE SkipFresh(Tail(todo), t)

HbSleep == [pc |-> "sleep", wake |-> now + PING_INTERVAL_SECONDS, todo |-> <<>>, t |-> 0]

\* _cleanup_stale_connections over `todo` with `t` its reading of the
\* clock: suspended in the close of the first stale entry, or finished and
\* asleep; `close` is the entry it closes
SweepSegment(todo, t) ==
    LET rest == SkipFresh(todo, t)
    IN  IF rest = <<>> THEN [hb |-> HbSleep, close |-> None]
        ELSE [hb |-> [pc |-> "sweep", wake |-> 0, todo |-> Tail(rest), t |-> t],
              close |-> Head(rest)]

\* the loop once the ping to the head of `hb.todo` is dealt with and the
\* registry is `conns`: suspended in the next ping, or in the sweep
HeartbeatAfterPingAbort(conns) ==
    IF hb.pc = "ping" /\ Tail(hb.todo) # <<>>
    THEN [hb |-> [hb EXCEPT !.pc = "ping", !.todo = Tail(hb.todo)], close |-> None]
    ELSE SweepSegment(conns, now)
HeartbeatAfterPing(conns) ==
    IF Tail(hb.todo) # <<>>
    THEN [hb |-> [hb EXCEPT !.pc = "ping", !.todo = Tail(hb.todo)], close |-> None]
    ELSE SweepSegment(conns, now)

\* _close_connection: the registry and the sockets afterwards
ConnectionsAfterCloseKeep(conns, ws) == conns
ConnectionsAfterClose(conns, ws) ==
    IF ws # None THEN Delete(conns, ws) ELSE conns

SocketsAfterCloseAlways(conns, ws) ==
    IF ws # None THEN [sock EXCEPT ![ws] = "closed"] ELSE sock
SocketsAfterClose(conns, ws) ==
    IF ws # None /\ (\E i \in 1..Len(conns) : conns[i] = ws)
    THEN [sock EXCEPT ![ws] = "closed"]
    ELSE sock

\* _heartbeat_loop: sleep(PING_INTERVAL_SECONDS) is over; _send_ping_to_all
\* up to its first send (with no connection: the empty sweep, and asleep)
HeartbeatWake ==
    /\ hb.pc = "sleep"
    /\ now >= hb.wake
    /\ hb' = IF connections = <<>> THEN HbSleep
             ELSE [pc |-> "ping", wake |-> 0, todo |-> connections, t |-> 0]
    /\ UNCHANGED <<authOther, connections, info, sock, ep, bc, st, profiles, used>>
    /\ sent' = NoSend

\* _send_ping_to_all: send_json returns
HeartbeatPing ==
    LET next == HeartbeatAfterPing(connections)
    IN  /\ hb.pc = "ping"
        /\ sock[Head(hb.todo)] = "open"
        /\ sent' = Sent(Head(hb.todo), create_message("PING", None), "ping")
        /\ hb' = next.hb
        /\ connections' = ConnectionsAfterClose(connections, next.close)
        /\ sock' = SocketsAfterClose(connections, next.close)
        /\ UNCHANGED <<authOther, info, ep, bc, st, profiles, used>>

\* _send_ping_to_all: send_json raises; _close_connection(ws, "Send failed")
\* up to its await of websocket.close
HeartbeatPingFail ==
    /\ hb.pc = "ping"
    /\ sock[Head(hb.todo)] # "open"
    /\ hb' = [hb EXCEPT !.pc = "ping_closed"]
    /\ connections' = ConnectionsAfterClose(connections, Head(hb.todo))
    /\ sock' = SocketsAfterClose(connections, Head(hb.todo))
    /\ UNCHANGED <<authOther, info, ep, bc, st, profiles, used>>
    /\ sent' = NoSend

\* _send_ping_to_all: websocket.close returns (or raises: swallowed)
HeartbeatPingClosed ==
    LET next == HeartbeatAfterPing(connections)
    IN  /\ hb.pc = "ping_closed"
        /\ hb' = next.hb
        /\ connections' = ConnectionsAfterClose(connections, next.close)
        /\ sock' = SocketsAfterClose(connections, next.close)
        /\ UNCHANGED <<authOther, info, ep, bc, st, profiles, used>>
        /\ sent' = NoSend

\* _cleanup_stale_connections: websocket.close returns; on to the next
\* stale entry
HeartbeatSweep ==
    LET next == SweepSegment(hb.todo, hb.t)
    IN  /\ hb.pc = "sweep"
        /\ hb' = next.hb
        /\ connections' = ConnectionsAfterClose(connections, next.close)
        /\ sock' = SocketsAfterClose(connections, next.close)
        /\ UNCHANGED <<authOther, info, ep, bc, st, profiles, used>>
        /\ sent' = NoSend

HeartbeatNext ==
    \/ HeartbeatWake
    \/ HeartbeatPing
    \/ HeartbeatPingFail
    \/ HeartbeatPingClosed
    \/ HeartbeatSweep

(***************************************************************************)
(* The WebSocket handler, its background loops and the clock.  The        *)
(* AuthService starts on a token file that holds one session token; the    *)
(* handler only validates against the token set (line 194).                *)
(***************************************************************************)
LoadedInit ==
    /\ tokens = {token_hex(1)}
    /\ token_file = _save_tokens({token_hex(1)})
    /\ qr_tokens = NoQrTokens
    /\ current_qr_token = None
    /\ drawn = 1
    /\ now = 0
    /\ lastCall = [op |-> "init", arg |-> None, ret |-> None, reason |-> None]
    /\ issued = {token_hex(1)}
    /\ revoked = {}
    /\ qr_history = <<>>
    /\ exchanges = [t \in TokenIds |-> 0]
    /\ superseded = {}

Init == LoadedInit /\ WsInit

\* a step of the AuthService or of the clock alone
WsIdle ==
    /\ sent' = NoSend
    /\ UNCHANGED <<connections, info, sock, ep, bc, hb, st, profiles, used>>
    /\ UNCHANGED <<storeVars, taskVars>>

Next ==
    \/ EndpointNext
    \/ BroadcastNext
    \/ StatsNext
    \/ HeartbeatNext
    \/ Tick /\ WsIdle

Spec == Init /\ [][Next]_vars

(***************************************************************************)
(* The heartbeat loop against connections that answer pings or do not,     *)
(* on a clock that advances by one ping interval.  asyncio.sleep returns   *)
(* when it is due: the clock does not pass hb.wake while the loop sleeps.  *)
(* A send_json or a close may take any time.                               *)
(***************************************************************************)
TickBeat ==
    /\ now + PING_INTERVAL_SECONDS <= PING_INTERVAL_SECONDS * MaxBeats
    /\ hb.pc = "sleep" => now + PING_INTERVAL_SECONDS <= hb.wake
    /\ now' = now + PING_INTERVAL_SECONDS
    /\ UNCHANGED <<tokens, qr_tokens, current_qr_token, drawn, token_file, histVars>>
    /\ WsIdle

BeatNext ==
    \/ \E ws \in Sockets : Connect(ws)
    \/ \E ws \in Sockets : ClientClose(ws)
    \/ \E ws \in Sockets : EndpointDisconnect(ws)
    \/ \E ws \in Sockets : RecvPong(ws)
    \/ HeartbeatNext
    \/ TickBeat

SpecHeartbeat == Init /\ [][BeatNext]_vars

(***************************************************************************)
(* The handler over a profile store that REST calls change: the database   *)
(* outlives the process, so the server starts on any store, the empty one  *)
(* of a fresh install included.                                            *)
(***************************************************************************)
ProfileStores == {<<>>, <<"A">>, <<"A", "B">>}

\* POST /api/profiles: create (the row is the newest), then
\* broadcast_profiles_update up to its first send
CreateProfile(profile_id) ==
    /\ bc.op = "idle"
    /\ used.rounds < used.max_rounds
    /\ ~ProfileExists(profile_id)
    /\ profiles' = Append(profiles, profile_id)
    /\ bc' = BroadcastAt("profiles", None, connections)
    /\ UNCHANGED <<authOther, connections, info, sock, ep, hb, st>>
    /\ used' = [used EXCEPT !.rounds = @ + 1]
    /\ sent' = NoSend

\* DELETE /api/profiles/{profile_id} of an existing profile: delete, then
\* broadcast_profiles_update up to its first send
DeleteProfile(profile_id) ==
    /\ bc.op = "idle"
    /\ used.rounds < used.max_rounds
    /\ ProfileExists(profile_id)
    /\ profiles' = SelectSeq(profiles, LAMBDA p : p # profile_id)
    /\ bc' = BroadcastAt("profiles", None, connections)
    /\ UNCHANGED <<authOther, connections, info, sock, ep, hb, st>>
    /\ used' = [used EXCEPT !.rounds = @ + 1]
    /\ sent' = NoSend

InitProfiles == LoadedInit /\ \E store \in ProfileStores : HandlerInit(store)

ProfilesNext ==
    \/ EndpointNext
    \/ BroadcastNext
    \/ \E profile_id \in ProfileIds : CreateProfile(profile_id)
    \/ \E profile_id \in ProfileIds : DeleteProfile(profile_id)

SpecProfiles == InitProfiles /\ [][ProfilesNext]_vars

(***************************************************************************)
(* Login: a fresh server whose token store is empty.  A client obtains a   *)
(* session token by exchanging the QR token (POST /api/auth/exchange) and  *)
(* presents it, or anything else, in the HELLO of its websocket.           *)
(***************************************************************************)
LoginNext ==
    \/ Tick /\ WsIdle
    \/ \E ttl \in TtlArgs : issue_qr_token(ttl) /\ WsIdle
    \/ \E t \in Presentable : exchange_qr_token(t) /\ WsIdle
    \/ \E ws \in Sockets : Connect(ws)
    \/ \E ws \in Sockets : ClientClose(ws)
    \/ \E ws \in Sockets : EndpointDisconnect(ws)
    \/ \E ws \in Sockets, token \in Presentable \cup {None}, version \in VersionArgs :
          RecvHello(ws, token, version)
    \/ \E ws \in Sockets : RecvGetButtons(ws)
    \/ \E ws \in Sockets : HandlerSend(ws)
    \/ \E ws \in Sockets : HandlerSendFail(ws)

SpecLogin == InitAuth /\ [][LoginNext]_vars

(***************************************************************************)
(* Revocation of session tokens while websocket clients are connected,     *)
(* handshake and are sent broadcasts.                                      *)
(***************************************************************************)
RevokeNext ==
    \/ EndpointNext
    \/ BroadcastNext
    \/ \E t \in Presentable : revoke_token(t) /\ WsIdle

SpecRevoke == Init /\ [][RevokeNext]_vars

(***************************************************************************)
(* The button routes of the HTTP API over the buttons table, with          *)
(* websocket clients that receive the broadcasts.                          *)
(***************************************************************************)
\* _resolve_profile_id(profile_id, profile_repository): the id given, or
\* that of the default profile, or None (answered 404)
_resolve_profile_id(profile_id) ==
    IF profile_id # None THEN profile_id ELSE get_default_profile

\* create_button, lines 99-100: existing
ExistingNever(button_id, resolved_id) == FALSE
Existing(button_id, resolved_id) == get_button_by_id(button_id, resolved_id)

\* button_repository.save(button, profile_id): the table after the update
\* of the row (id, profile_id) or its insertion
Save(table, button_id, label, profile_id) ==
    [table EXCEPT ![profile_id] = Put(@, button_id, label)]

\* the frame of a route that touches the buttons table
RouteFrame ==
    /\ UNCHANGED <<authVars, histVars>>
    /\ UNCHANGED <<connections, info, sock, ep, hb, st, profiles, taskVars>>
    /\ sent' = NoSend

\* a route that changed the table calls
\* broadcast_buttons_update(resolved_id), which runs up to its first send
RouteBroadcastAll(resolved_id) ==
    /\ bc.op = "idle"
    /\ used.rounds < used.max_rounds
    /\ bc' = BroadcastAt("buttons", None, connections)
    /\ used' = [used EXCEPT !.rounds = @ + 1]
RouteBroadcast(resolved_id) ==
    /\ bc.op = "idle"
    /\ used.rounds < used.max_rounds
    /\ bc' = BroadcastAt("buttons", resolved_id, connections)
    /\ used' = [used EXCEPT !.rounds = @ + 1]

\* POST /api/buttons?profileId=profile_id with a ButtonDTO (id, label and
\* an actionType that ActionType accepts or not)
create_button(button_id, label, action_ok, profile_id) ==
    LET resolved_id == _resolve_profile_id(profile_id)
        status == IF resolved_id = None THEN 404
                  ELSE IF Existing(button_id, resolved_id) THEN 409
                  ELSE IF ~action_ok THEN 400
                  ELSE 200
    IN  /\ response' = [route |-> "create_button", status |-> status]
        /\ IF status = 200
           THEN /\ buttons' = Save(buttons, button_id, label, resolved_id)
                /\ RouteBroadcast(resolved_id)
           ELSE UNCHANGED <<buttons, bc, used>>
        /\ RouteFrame

\* DELETE /api/buttons/{button_id}?profileId=profile_id
delete_button(button_id, profile_id) ==
    LET resolved_id == _resolve_profile_id(profile_id)
        status == IF resolved_id = None THEN 404
                  ELSE IF ~get_button_by_id(button_id, resolved_id) THEN 404
                  ELSE 200
    IN  /\ response' = [route |-> "delete_button", status |-> status]
        /\ IF status = 200
           THEN /\ buttons' = [buttons EXCEPT ![resolved_id] = Pop(@, button_id)]
                /\ RouteBroadcast(resolved_id)
           ELSE UNCHANGED <<buttons, bc, used>>
        /\ RouteFrame

\* "profileId" of a button route: a profile id or absent
RouteProfileArgs == ProfileIds \cup {None}

ButtonsNext ==
    \/ \E button_id \in {"b1", "b2"}, label \in Labels, action_ok \in BOOLEAN,
          profile_id \in RouteProfileArgs :
          create_button(button_id, label, action_ok, profile_id)
    \/ \E button_id \in {"b1", "b2"}, profile_id \in RouteProfileArgs :
          delete_button(button_id, profile_id)
    \/ \E ws \in Sockets : Connect(ws)
    \/ \E ws \in Sockets : ClientClose(ws)
    \/ \E ws \in Sockets, token \in Presentable \cup {None}, version \in VersionArgs :
          RecvHello(ws, token, version)
    \/ \E ws \in Sockets : HandlerSend(ws)
    \/ BroadcastSend
    \/ BroadcastSendFail

SpecButtons == Init /\ [][ButtonsNext]_vars

(***************************************************************************)
(* The HTTP routes that change buttons and profiles, with their rejected   *)
(* requests.  The table of the model keeps no order_index and no profile   *)
(* name: a reorder and a profile update leave it as it is.                 *)
(***************************************************************************)
\* PUT /api/buttons/{button_id}?profileId=profile_id with a ButtonDTO
update_button(button_id, label, action_ok, profile_id) ==
    LET resolved_id == _resolve_profile_id(profile_id)
        status == IF resolved_id = None THEN 404
                  ELSE IF ~get_button_by_id(button_id, resolved_id) THEN 404
                  ELSE IF ~action_ok THEN 400
                  ELSE 200
    IN  /\ response' = [route |-> "update_button", status |-> status]
        /\ IF status = 200
           THEN /\ buttons' = Save(buttons, button_id, label, resolved_id)
                /\ RouteBroadcast(resolved_id)
           ELSE UNCHANGED <<buttons, bc, used>>
        /\ RouteFrame

\* PUT /api/buttons/reorder?profileId=profile_id
reorder_buttons(profile_id) ==
    LET resolved_id == _resolve_profile_id(profile_id)
        status == IF resolved_id = None THEN 404 ELSE 200
    IN  /\ response' = [route |-> "reorder_buttons", status |-> status]
        /\ buttons' = buttons
        /\ IF status = 200
           THEN RouteBroadcast(resolved_id)
           ELSE UNCHANGED <<bc, used>>
        /\ RouteFrame

\* PUT /api/profiles/{profile_id} of an existing profile: update, then
\* broadcast_profiles_update up to its first send
UpdateProfile(profile_id) ==
    /\ bc.op = "idle"
    /\ used.rounds < used.max_rounds
    /\ ProfileExists(profile_id)
    /\ bc' = BroadcastAt("profiles", None, connections)
    /\ UNCHANGED <<authOther, connections, info, sock, ep, hb, st, profiles>>
    /\ used' = [used EXCEPT !.rounds = @ + 1]
    /\ sent' = NoSend

\* PUT or DELETE /api/profiles/{profile_id} of a profile the store lacks:
\* 404 (lines 211-213 and 222-224)
ProfileNotFound(route, profile_id) ==
    /\ ~ProfileExists(profile_id)
    /\ response' = [route |-> route, status |-> 404]
    /\ UNCHANGED <<buttons, bc, used>>
    /\ RouteFrame

RoutesNext ==
    \/ \E button_id \in {"b1", "b2"}, label \in Labels, action_ok \in BOOLEAN,
          profile_id \in RouteProfileArgs :
          \/ create_button(button_id, label, action_ok, profile_id)
          \/ update_button(button_id, label, action_ok, profile_id)
    \/ \E button_id \in {"b1", "b2"}, profile_id \in RouteProfileArgs :
          delete_button(button_id, profile_id)
    \/ \E profile_id \in RouteProfileArgs : reorder_buttons(profile_id)
    \/ \E profile_id \in ProfileIds : CreateProfile(profile_id)
    \/ \E profile_id \in ProfileIds : UpdateProfile(profile_id)
    \/ \E profile_id \in ProfileIds : DeleteProfile(profile_id)
    \/ \E route \in {"update_profile", "delete_profile"}, profile_id \in ProfileIds :
          ProfileNotFound(route, profile_id)
    \/ \E ws \in Sockets : Connect(ws)
    \/ \E ws \in Sockets, version \in VersionArgs :
          RecvHello(ws, token_hex(1), version)
    \/ \E ws \in Sockets : HandlerSend(ws)
    \/ BroadcastSend

\* a store with the one profile A, that holds the button b1
InitRoutes == LoadedInit /\ HandlerInit(<<"A">>)

SpecRoutes == InitRoutes /\ [][RoutesNext]_vars

(***************************************************************************)
(* broadcast_buttons_update against clients that authenticate and switch   *)
(* profiles on their own, over any profile store.                          *)
(***************************************************************************)
InitFanOut ==
    LoadedInit /\ \E store \in ProfileStores :
                     HandlerStart(store, FanOutFrames, MaxRounds)

FanOutNext ==
    \/ \E ws \in Sockets : Connect(ws)
    \/ \E ws \in Sockets : ClientClose(ws)
    \/ \E ws \in Sockets, token \in Presentable \cup {None}, version \in VersionArgs :
          RecvHello(ws, token, version)
    \/ \E ws \in Sockets, profile_id \in ProfileArgs : RecvSwitchProfile(ws, profile_id)
    \/ \E ws \in Sockets : HandlerSend(ws)
    \/ \E ws \in Sockets : HandlerSendFail(ws)
    \/ \E profile_id \in ProfileArgs : BroadcastStart("buttons", profile_id)
    \/ BroadcastSend
    \/ BroadcastSendFail

SpecFanOut == InitFanOut /\ [][FanOutNext]_vars

(***************************************************************************)
(* start_heartbeat and stop_heartbeat, as the lifespan of the application  *)
(* calls them: start before the server serves, stop once at shutdown.  A   *)
(* handler that is given a SystemMonitor (the lifespan starts no loop      *)
(* without one).                                                           *)
(***************************************************************************)
\* start_heartbeat, lines 52 and 55: `if self._..._task is None`
CreatesAlways(handle) == TRUE
Creates(handle) == ~handle

\* the heartbeat task before it is created
NoLoop == [pc |-> "none", wake |-> 0, todo |-> <<>>, t |-> 0]

\* start_heartbeat: no await, the created loops run to their first sleep
start_heartbeat ==
    /\ tasks.stop = "idle"
    /\ tasks.starts < MaxStarts
    /\ tasks' = [tasks EXCEPT
          !.starts = @ + 1,
          !.heartbeat_task = TRUE,
          !.stats_task = TRUE,
          !.ping_loops = IF Creates(tasks.heartbeat_task) THEN @ + 1 ELSE @,
          !.stats_loops = IF Creates(tasks.stats_task) THEN @ + 1 ELSE @]
    /\ hb' = IF Creates(tasks.heartbeat_task) THEN HbSleep ELSE hb
    /\ st' = IF Creates(tasks.stats_task) THEN StIdle ELSE st
    /\ UNCHANGED <<authVars, histVars, storeVars, threads>>
    /\ UNCHANGED <<connections, info, sock, ep, bc, profiles, used>>
    /\ sent' = NoSend

\* the frame of a step of stop_heartbeat
StopFrame ==
    /\ UNCHANGED <<authVars, histVars, storeVars, threads>>
    /\ UNCHANGED <<connections, info, sock, ep, bc, profiles, used>>
    /\ sent' = NoSend

\* stop_heartbeat, lines 61-64: cancel the heartbeat task and await it
\* (lines 70-73 at once when there is none)
StopHeartbeatStart ==
    /\ tasks.stop = "idle"
    /\ tasks.starts > 0
    /\ tasks' =
          IF tasks.heartbeat_task
          THEN [tasks EXCEPT !.stop = "await_heartbeat", !.cancelled = {"heartbeat"}]
          ELSE IF tasks.stats_task
          THEN [tasks EXCEPT !.stop = "await_stats", !.cancelled = {"stats"}]
          ELSE [tasks EXCEPT !.stop = "returned", !.cancelled = {}]
    /\ UNCHANGED <<hb, st>>
    /\ StopFrame

\* the cancelled _heartbeat_loop: CancelledError is raised at the await the
\* task is suspended in (sleep, send_json or close) and no except clause
\* on its way catches it (`except Exception`, lines 120 and 139)
HeartbeatCancelled ==
    /\ tasks.stop = "await_heartbeat"
    /\ hb.pc # "cancelled"
    /\ hb' = [NoLoop EXCEPT !.pc = "cancelled"]
    /\ tasks' = [tasks EXCEPT !.ping_loops = @ - 1]
    /\ UNCHANGED st
    /\ StopFrame

\* stop_heartbeat, lines 65-73: the awaited task has ended; the handle is
\* cleared, the stats task is cancelled and awaited
StopHeartbeatResume ==
    /\ tasks.stop = "await_heartbeat"
    /\ hb.pc = "cancelled"
    /\ tasks' =
          IF tasks.stats_task
          THEN [tasks EXCEPT !.heartbeat_task = FALSE, !.stop = "await_stats",
                             !.cancelled = @ \cup {"stats"}]
          ELSE [tasks EXCEPT !.heartbeat_task = FALSE, !.stop = "returned"]
    /\ UNCHANGED <<hb, st>>
    /\ StopFrame

\* the cancelled _stats_broadcast_loop (`except Exception`, line 108)
StatsCancelled ==
    /\ tasks.stop = "await_stats"
    /\ st.pc # "cancelled"
    /\ st' = [pc |-> "cancelled", todo |-> <<>>]
    /\ tasks' = [tasks EXCEPT !.stats_loops = @ - 1]
    /\ UNCHANGED hb
    /\ StopFrame

\* stop_heartbeat, lines 74-76: the awaited task has ended; return
StopHeartbeatReturn ==
    /\ tasks.stop = "await_stats"
    /\ st.pc = "cancelled"
    /\ tasks' = [tasks EXCEPT !.stats_task = FALSE, !.stop = "returned"]
    /\ UNCHANGED <<hb, st>>
    /\ StopFrame

\* the handler after construction, before the lifespan starts the loops
InitLifecycle ==
    /\ LoadedInit
    /\ HandlerFields(<<"A">>, 1, MaxRounds)
    /\ hb = NoLoop
    /\ st = [pc |-> "none", todo |-> <<>>]
    /\ tasks = NoTasks

\* a loop task runs unless its cancellation has been requested
LifecycleNext ==
    \/ start_heartbeat
    \/ StopHeartbeatStart
    \/ HeartbeatCancelled
    \/ StopHeartbeatResume
    \/ StatsCancelled
    \/ StopHeartbeatReturn
    \/ "heartbeat" \notin tasks.cancelled /\ HeartbeatNext
    \/ "stats" \notin tasks.cancelled /\ StatsNext
    \/ TickBeat
    \/ \E ws \in Sockets : Connect(ws)
    \/ \E ws \in Sockets : ClientClose(ws)
    \/ \E ws \in Sockets, version \in VersionArgs :
          RecvHello(ws, token_hex(1), version)
    \/ \E ws \in Sockets : HandlerSend(ws)

SpecLifecycle == InitLifecycle /\ [][LifecycleNext]_vars

(***************************************************************************)
(* Properties of the AuthService (checked under SpecAuth).                 *)
(***************************************************************************)
IsExchangeCall == lastCall.op = "exchange_qr_token"

QrIssued == {qr_history[i] : i \in 1..Len(qr_history)}

\* C1: every session token returned by issue_token validates from its issue
\* on, whatever else is issued, revoked or exchanged, until revoke_token is
\* called with it, and does not validate afterwards.
C1_ValidUntilRevoked ==
    /\ \A t \in issued : validate_token(t) = (t \notin revoked)
    /\ (lastCall.op = "validate_token" /\ lastCall.arg \in issued)
          => lastCall.ret = (lastCall.arg \notin revoked)

C1_Witness ==
    /\ lastCall.op = "validate_token"
    /\ lastCall.arg \in issued \ revoked
    /\ lastCall.ret = TRUE
    /\ issued \cap revoked # {}
    /\ \E q \in TokenIds : exchanges[q] = 1

\* C2: each QR token is exchanged successfully at most once, over every
\* sequence of issue_qr_token, exchange_qr_token and
\* cleanup_expired_qr_tokens calls.
C2_ExchangedAtMostOnce ==
    \A t \in TokenIds : exchanges[t] <= 1

C2_Witness ==
    /\ IsExchangeCall
    /\ exchanges[lastCall.arg] = 1
    /\ lastCall.ret = None
    /\ lastCall.arg \in QrIssued

\* C3 as stated: a second exchange of a QR token that was exchanged
\* successfully fails with the reason AlreadyUsed.
C3_SecondExchangeAlreadyUsed ==
    [][\A t \in TokenIds :
          (exchange_qr_token(t) /\ exchanges[t] >= 1)
             => (lastCall'.ret = None /\ lastCall'.reason = "AlreadyUsed")]_vars

\* C3 as amended: a second exchange of a QR token that was exchanged
\* successfully fails, issues no session token, and takes the NotFound
\* branch (the successful exchange removed the entry).
C3_SecondExchangeNotFound ==
    [][\A t \in TokenIds :
          (exchange_qr_token(t) /\ exchanges[t] >= 1)
             => /\ lastCall'.ret = None
                /\ lastCall'.reason = "NotFound"
                /\ tokens' = tokens]_vars

C3_Witness ==
    /\ IsExchangeCall
    /\ exchanges[lastCall.arg] = 1
    /\ lastCall.ret = None
    /\ lastCall.reason = "NotFound"

\* C4: once a QR token t1 has been superseded (a later token was issued
\* while t1 was outstanding, unused and unexpired), every exchange of t1
\* fails with NotFound, issues no session token and leaves the map, hence
\* the exchangeability of the later token, as it was.
C4_SupersededNotFound ==
    [][\A t \in TokenIds :
          (exchange_qr_token(t) /\ t \in superseded)
             => /\ lastCall'.ret = None
                /\ lastCall'.reason = "NotFound"
                /\ tokens' = tokens
                /\ qr_tokens' = qr_tokens]_vars

C4_Witness ==
    /\ IsExchangeCall
    /\ lastCall.arg \in superseded
    /\ lastCall.reason = "NotFound"
    /\ Outstanding(qr_tokens, now) # {}

\* C5: an exchange of a QR token whose entry is in the map and whose
\* expires_at is before the current time fails with Expired, issues no
\* session token and removes the entry; a QR token whose entry has been
\* removed never comes back, and its exchanges fail.
C5_ExpiredExchange ==
    [][\A t \in TokenIds :
          /\ (/\ exchange_qr_token(t)
              /\ t \in DOMAIN qr_tokens
              /\ now > qr_tokens[t].expires_at)
                => /\ lastCall'.ret = None
                   /\ lastCall'.reason = "Expired"
                   /\ tokens' = tokens
                   /\ t \notin DOMAIN qr_tokens'
          /\ (t \in QrIssued /\ t \notin DOMAIN qr_tokens)
                => /\ t \notin DOMAIN qr_tokens'
                   /\ exchange_qr_token(t) => lastCall'.ret = None]_vars

C5_Witness ==
    /\ IsExchangeCall
    /\ lastCall.reason = "Expired"
    /\ lastCall.arg \notin DOMAIN qr_tokens
    /\ exchanges[lastCall.arg] = 0

\* C6: the exchangeable QR-token map holds at most one token, and a token
\* it holds is the most recently issued one.
C6_AtMostOneQrToken ==
    /\ Cardinality(DOMAIN qr_tokens) <= 1
    /\ DOMAIN qr_tokens # {}
          => /\ Len(qr_history) > 0
             /\ DOMAIN qr_tokens = {qr_history[Len(qr_history)]}

C6_Witness ==
    /\ Len(qr_history) >= 2
    /\ DOMAIN qr_tokens = {qr_history[Len(qr_history)]}
    /\ lastCall.op = "cleanup_expired_qr_tokens"

(***************************************************************************)
(* Properties of the WebSocket handler (checked under Spec).               *)
(***************************************************************************)
Unauthenticated(ws) == Registered(ws) /\ ~info[ws].is_authenticated

\* a frame whose handler starts with the _is_authenticated check arrives
GatedFrame(ws) ==
    \/ \E button_id \in ButtonArgs : RecvButtonPressed(ws, button_id)
    \/ RecvGetButtons(ws)
    \/ RecvGetProfiles(ws)
    \/ \E profile_id \in ProfileArgs : RecvSwitchProfile(ws, profile_id)

\* the handler of the frame is suspended in the send of an ERROR message
ErrorReply(ws) == ep'[ws].pc = "send" /\ ep'[ws].out.type = "ERROR"

\* the handler of the frame returned without a send
NoReply(ws) == ep'[ws].pc = "recv" /\ sent' = NoSend

\* C7 as stated: on a registered, unauthenticated connection every frame
\* that is no handshake request (button-pressed, get-buttons, get-profiles,
\* switch-profile, pong, any other type) is answered with an error and
\* changes no field of the registry entry.
C7_EveryOtherMessageRefused ==
    [][\A ws \in Sockets :
          (Unauthenticated(ws)
              /\ (GatedFrame(ws) \/ RecvPong(ws) \/ RecvUnknownType(ws)))
             => ErrorReply(ws) /\ info'[ws] = info[ws]]_vars

\* C7 amended: on a registered, unauthenticated connection button-pressed,
\* get-buttons, get-profiles and switch-profile are answered with the error
\* "Not authenticated" and change no registry entry; a pong gets no reply
\* and changes last_pong only; a frame of any other type gets no reply and
\* changes nothing.
C7_RefusedOrIgnored ==
    [][\A ws \in Sockets :
          Unauthenticated(ws)
             => /\ GatedFrame(ws)
                   => /\ ErrorReply(ws)
                      /\ ep'[ws].out.arg = "Not authenticated"
                      /\ info' = info
                /\ RecvPong(ws)
                   => /\ NoReply(ws)
                      /\ info' = [info EXCEPT ![ws].last_pong = now]
                /\ RecvUnknownType(ws)
                   => NoReply(ws) /\ info' = info]_vars

C7_Witness ==
    /\ sent.by = "handler"
    /\ sent.type = "ERROR"
    /\ sent.arg = "Not authenticated"
    /\ Unauthenticated(sent.to)
    /\ info[sent.to] = ConnectionInfo(0)
    /\ now > 0

\* C8: a handshake request with a valid session token on a registered
\* connection sets is_authenticated and its handler sends WELCOME, then
\* PROFILES_LIST, then BUTTONS_LIST, each send followed by the next with
\* no other message of that handler in between, and then returns.
C8_HandshakeOrder ==
    [][\A ws \in Sockets :
          /\ (/\ Registered(ws)
              /\ \E token \in Presentable \cup {None}, version \in VersionArgs :
                    validate_token(token) /\ RecvHello(ws, token, version))
                => /\ info'[ws].is_authenticated
                   /\ ep'[ws].pc = "send"
                   /\ ep'[ws].out.type = "WELCOME"
                   /\ ep'[ws].log = <<>>
          /\ (HandlerSend(ws) /\ ep[ws].out.type = "WELCOME")
                => /\ sent'.to = ws
                   /\ sent'.log = <<"WELCOME">>
                   /\ ep'[ws].pc = "send"
                   /\ ep'[ws].out.type = "PROFILES_LIST"
          /\ (HandlerSend(ws) /\ ep[ws].log = <<"WELCOME">>)
                => /\ sent'.to = ws
                   /\ sent'.log = <<"WELCOME", "PROFILES_LIST">>
                   /\ ep'[ws].pc = "send"
                   /\ ep'[ws].out.type = "BUTTONS_LIST"
          /\ (HandlerSend(ws) /\ ep[ws].log = <<"WELCOME", "PROFILES_LIST">>)
                => /\ sent'.to = ws
                   /\ sent'.log = <<"WELCOME", "PROFILES_LIST", "BUTTONS_LIST">>
                   /\ ep'[ws].pc = "recv"]_vars

C8_Witness ==
    /\ sent.by = "handler"
    /\ sent.log = <<"WELCOME", "PROFILES_LIST", "BUTTONS_LIST">>
    /\ sent.auth
    /\ ep[sent.to].pc = "recv"

\* C9: every message sent to a connection whose is_authenticated is false,
\* by a handler, a broadcast, the stats loop or the ping round, is a PING,
\* an ERROR or an AUTH_REQUIRED.
C9_UnauthenticatedGetsNoData ==
    (sent.to # None /\ ~sent.auth)
       => sent.type \in {"PING", "ERROR", "AUTH_REQUIRED"}

C9_Witness ==
    /\ sent.by \in {"buttons", "profiles", "switch", "stats"}
    /\ sent.auth
    /\ \E ws \in Sockets :
          ws # sent.to /\ Unauthenticated(ws) /\ sock[ws] = "open"

\* C10: while a connection stays in the registry its is_authenticated never
\* goes from true to false, whichever step is taken.
C10_AuthenticatedUntilRemoved ==
    [][\A ws \in Sockets :
          (Registered(ws) /\ info[ws].is_authenticated /\ Registered(ws)')
             => info'[ws].is_authenticated]_vars

C10_Witness ==
    /\ sent.by = "handler"
    /\ sent.type = "AUTH_REQUIRED"
    /\ sent.auth
    /\ Registered(sent.to)
    /\ info[sent.to].is_authenticated

(***************************************************************************)
(* Properties of the heartbeat loop (checked under SpecHeartbeat).         *)
(***************************************************************************)
InSeq(seq, x) == \E i \in 1..Len(seq) : seq[i] = x

\* the clock reading of the sweep that a step runs or continues
SweepTime == IF hb.pc = "sweep" THEN hb.t ELSE now

\* C11 as stated: a registered connection from which no pong was processed
\* is gone PONG_TIMEOUT_SECONDS + PING_INTERVAL_SECONDS after its accept at
\* the latest.
C11_EvictedWithinDeadline ==
    used.frames = 0
       => \A ws \in Sockets :
             Registered(ws)
                => now - info[ws].last_pong
                      <= PONG_TIMEOUT_SECONDS + PING_INTERVAL_SECONDS

\* C11 amended: every sweep of the heartbeat loop removes each registered
\* connection whose last_pong is more than PONG_TIMEOUT_SECONDS before the
\* sweep's reading of the clock, and closes its socket: while the sweep is
\* suspended such a connection is still ahead in its snapshot, and none is
\* left when the loop goes back to sleep.
C11_StaleEvictedBySweep ==
    [][/\ hb'.pc = "sweep"
          => \A ws \in Sockets :
                (Registered(ws)'
                    /\ hb'.t - info'[ws].last_pong > PONG_TIMEOUT_SECONDS)
                   => InSeq(hb'.todo, ws)
       /\ (hb.pc # "sleep" /\ hb'.pc = "sleep")
          => \A ws \in Sockets :
                Registered(ws)'
                   => ~(SweepTime - info'[ws].last_pong > PONG_TIMEOUT_SECONDS)
       /\ hb'.pc \in {"sweep", "sleep"}
          => \A ws \in Sockets :
                (Registered(ws) /\ ~Registered(ws)')
                   => sock'[ws] = "closed" \/ EndpointDisconnect(ws)]_vars

C11_Witness ==
    /\ hb.pc = "sweep"
    /\ used.frames = 0
    /\ sent.type = "PING"
    /\ sock[sent.to] = "closed"
    /\ ~Registered(sent.to)
    /\ hb.t - info[sent.to].last_pong > PONG_TIMEOUT_SECONDS

\* C12: the sweep removes a connection only if its last_pong is more than
\* PONG_TIMEOUT_SECONDS before the current time at the moment the sweep
\* reaches it; a connection whose last pong is never that old is not
\* removed by a sweep, whatever is processed or closed in between.
C12_FreshNeverSwept ==
    [][\A ws \in Sockets :
          (hb'.pc = "sweep" /\ Registered(ws) /\ ~Registered(ws)'
              /\ ~EndpointDisconnect(ws))
             => /\ now - info[ws].last_pong > PONG_TIMEOUT_SECONDS
                /\ SweepTime - info[ws].last_pong > PONG_TIMEOUT_SECONDS]_vars

C12_Witness ==
    /\ hb.pc = "sleep"
    /\ \E kept \in Sockets, gone \in Sockets :
          /\ Registered(kept) /\ sock[kept] = "open"
          /\ ~Registered(gone) /\ sock[gone] = "closed"
          /\ ep[gone].pc = "recv"
          /\ info[kept].last_pong > info[gone].last_pong
          /\ now - info[kept].last_pong <= PONG_TIMEOUT_SECONDS
          /\ now - info[gone].last_pong > PONG_TIMEOUT_SECONDS

(***************************************************************************)
(* Properties of the broadcasts (checked under Spec).                      *)
(***************************************************************************)
\* C13: broadcast_buttons_update(P) with a profile id P sends a buttons list
\* only to authenticated connections whose active profile is P: whenever the
\* loop of such a call reaches an entry it sends to, that entry's
\* active_profile_id is P.
C13_ButtonsUpdateOnlyToProfile ==
    [][(bc'.op = "buttons" /\ bc'.arg # None /\ bc' # bc)
          => info'[Head(bc'.todo)].active_profile_id = bc'.arg]_vars

\* the snapshot entries a broadcast has still to visit after a step
Ahead == IF bc'.op = "idle" THEN <<>> ELSE bc'.todo

\* broadcast_profile_switch(p) walks on through the entries `before`: the
\* entries it passes over are unauthenticated and keep their ConnectionInfo,
\* the entry it stops at is authenticated, gets active_profile_id p whatever
\* it was, and is about to be sent PROFILE_SWITCHED naming p; no other
\* ConnectionInfo changes
Visit(before, p) ==
    /\ \A ws \in Sockets :
          (InSeq(before, ws) /\ ~InSeq(Ahead, ws))
             => ~info[ws].is_authenticated /\ info'[ws] = info[ws]
    /\ \A ws \in Sockets : InSeq(Ahead, ws) => InSeq(before, ws)
    /\ Ahead # <<>> =>
          /\ bc'.op = "switch" /\ bc'.arg = p /\ bc'.at = "first"
          /\ bc'.out = create_message("PROFILE_SWITCHED", p)
          /\ info[Head(Ahead)].is_authenticated
          /\ info'[Head(Ahead)] =
                [info[Head(Ahead)] EXCEPT !.active_profile_id = p]
    /\ \A ws \in Sockets :
          (Ahead = <<>> \/ ws # Head(Ahead)) => info'[ws] = info[ws]

\* C14: broadcast_profile_switch(B) for an existing profile B sets
\* active_profile_id to B on every authenticated connection of the registry,
\* whatever its previous profile, and sends each of them PROFILE_SWITCHED
\* naming B and then the buttons list of B; unauthenticated connections are
\* neither changed nor sent anything.
C14_GlobalSwitch ==
    [][/\ \A p \in ProfileIds :
             BroadcastStart("switch", p) => Visit(connections, p)
       /\ (BroadcastSend /\ bc.op = "switch" /\ bc.at = "first")
             => /\ sent'.to = Head(bc.todo) /\ sent'.auth
                /\ sent'.type = "PROFILE_SWITCHED" /\ sent'.arg = bc.arg
                /\ bc' = [bc EXCEPT !.at = "second",
                             !.out = create_message("BUTTONS_LIST", bc.arg)]
                /\ info' = info
       /\ (BroadcastSend /\ bc.op = "switch" /\ bc.at = "second")
             => /\ sent'.to = Head(bc.todo) /\ sent'.auth
                /\ sent'.type = "BUTTONS_LIST" /\ sent'.arg = bc.arg
                /\ Visit(Tail(bc.todo), bc.arg)
       /\ (BroadcastSendFail /\ bc.op = "switch")
             => sent'.to = None /\ Visit(Tail(bc.todo), bc.arg)]_vars

\* a connection that was on profile A has been switched to B and sent both
\* messages while an unauthenticated connection of the registry was left alone
C14_Witness ==
    /\ sent.by = "switch" /\ sent.type = "BUTTONS_LIST" /\ sent.arg = "B"
    /\ info[sent.to].active_profile_id = "B"
    /\ get_default_profile = "A"
    /\ bc.op = "idle"
    /\ \E ws \in Sockets :
          /\ Registered(ws) /\ ~info[ws].is_authenticated
          /\ info[ws].active_profile_id = None

(***************************************************************************)
(* Properties of the registry (checked under Spec).                        *)
(***************************************************************************)
\* the step ends the endpoint task of ws with a call of disconnect(ws)
Disconnects(ws) ==
    \/ EndpointDisconnect(ws)
    \/ HandlerSendFail(ws) /\ ep'[ws].pc = "ended"

\* the step is one in which the heartbeat loop calls _close_connection(ws)
Closes(ws) ==
    \/ HeartbeatPingFail /\ ws = Head(hb.todo)
    \/ HeartbeatSweep /\ ws = SweepSegment(hb.todo, hb.t).close
    \/ HeartbeatPing /\ ws = HeartbeatAfterPing(connections).close
    \/ HeartbeatPingClosed /\ ws = HeartbeatAfterPing(connections).close

\* C15: unregistering is idempotent: disconnect(c) on a connection that is
\* absent from the registry raises nothing and leaves the registry
\* unchanged, and _close_connection(c) on an absent connection is a no-op
\* (nothing removed, no socket closed, the loop goes on).
C15_UnregisterIdempotent ==
    [][\A ws \in Sockets :
          ~Registered(ws) =>
             /\ Disconnects(ws)
                   => /\ connections' = connections /\ info' = info
                      /\ sock' = sock /\ ep'[ws].pc = "ended"
             /\ Closes(ws)
                   => /\ connections' = connections /\ info' = info
                      /\ sock' = sock /\ ep' = ep
                      /\ hb'.pc \in {"sleep", "ping", "ping_closed", "sweep"}]_vars

\* _close_connection has just returned early on a connection that its
\* endpoint had already unregistered (the socket was never closed by the
\* server), and the endpoint of a connection evicted by _close_connection
\* has gone through disconnect
C15_Witness ==
    \E gone \in Sockets, evicted \in Sockets :
       /\ hb.pc = "ping_closed" /\ Head(hb.todo) = gone
       /\ ~Registered(gone) /\ sock[gone] = "broken" /\ ep[gone].pc = "ended"
       /\ ~Registered(evicted) /\ sock[evicted] = "closed"
       /\ ep[evicted].pc = "ended"

\* C16: the registry contains exactly the currently open sockets: an
\* accepted socket that is open is registered, and no socket whose receive
\* loop has ended (by a disconnect or by any other exception) remains in the
\* registry.
C16_RegistryIsOpenSockets ==
    \A ws \in Sockets :
       /\ sock[ws] = "open" => Registered(ws)
       /\ Registered(ws) => ep[ws].pc \notin {"crashed", "ended"}

(***************************************************************************)
(* Properties of the active profile (checked under SpecProfiles).          *)
(***************************************************************************)
\* C17 as stated: every registry entry with is_authenticated true has a
\* non-null active_profile_id, for every content of the profile store.
C17_AuthenticatedHasProfile ==
    \A ws \in Sockets :
       (Registered(ws) /\ info[ws].is_authenticated)
          => info[ws].active_profile_id # None

\* C17, amended: the handshake that authenticates a connection binds it to
\* the store's default profile exactly when the store holds a profile, and
\* leaves active_profile_id null on an empty store; a later successful
\* handshake over a store that then holds a profile binds it; a non-null
\* active_profile_id never becomes null again.
C17_ProfileBoundUnlessStoreEmpty ==
    [][\A ws \in Sockets :
          /\ (Registered(ws) /\ ~info[ws].is_authenticated
                /\ info'[ws].is_authenticated)
                => info'[ws].active_profile_id =
                      IF profiles = <<>> THEN None ELSE Head(profiles)
          /\ \A token \in Presentable, version \in VersionArgs :
                (RecvHello(ws, token, version) /\ Registered(ws)
                   /\ validate_token(token) /\ profiles # <<>>)
                   => info'[ws].active_profile_id # None
          /\ info[ws].active_profile_id # None
                => info'[ws].active_profile_id # None]_vars

\* one connection completed its handshake over an empty store and has no
\* active profile, another completed it after a profile was created and is
\* bound to that profile
C17_Witness ==
    \E first \in Sockets, second \in Sockets :
       /\ Registered(first) /\ info[first].is_authenticated
       /\ info[first].active_profile_id = None
       /\ Registered(second) /\ info[second].is_authenticated
       /\ profiles # <<>>
       /\ info[second].active_profile_id = Head(profiles)
       /\ sent.to = second /\ sent.at = "hello_buttons"

(***************************************************************************)
(* Properties of the message handlers (checked under Spec).                *)
(***************************************************************************)
\* C18: a SWITCH_PROFILE message handled for connection c changes only c's
\* active_profile_id: the entry of every other connection is unchanged, the
\* registry and the broadcasts are not touched, and the replies (the
\* buttons list, then PROFILE_SWITCHED) go to c alone.
C18_SwitchIsLocal ==
    [][\A ws \in Sockets :
          /\ \A profile_id \in ProfileArgs :
                RecvSwitchProfile(ws, profile_id)
                   => /\ \A other \in Sockets \ {ws} : info'[other] = info[other]
                      /\ \/ info'[ws] = info[ws]
                         \/ /\ ProfileExists(profile_id)
                            /\ info'[ws] = [info[ws] EXCEPT
                                               !.active_profile_id = profile_id]
                      /\ connections' = connections /\ bc' = bc
                      /\ sent'.to = None
          /\ (HandlerSend(ws) /\ ep[ws].at = "switch_buttons")
                => /\ sent'.to = ws /\ sent'.type = "BUTTONS_LIST"
                   /\ ep'[ws].pc = "send"
                   /\ ep'[ws].out = create_message("PROFILE_SWITCHED", ep[ws].loc)
                   /\ info' = info /\ bc' = bc
          /\ (HandlerSend(ws) /\ ep'[ws].pc = "recv"
                /\ sent'.type = "PROFILE_SWITCHED")
                => sent'.to = ws /\ info' = info /\ bc' = bc]_vars

\* a connection bound to A by its handshake switched itself to B and was
\* sent both replies, while the other registered connection has the entry it
\* was accepted with
C18_Witness ==
    \E ws \in Sockets, other \in Sockets :
       /\ other # ws
       /\ sent.to = ws /\ sent.by = "handler" /\ sent.type = "PROFILE_SWITCHED"
       /\ sent.log = <<"BUTTONS_LIST", "PROFILE_SWITCHED">>
       /\ get_default_profile = "A" /\ info[ws].active_profile_id = "B"
       /\ Registered(other) /\ info[other].active_profile_id = None
       /\ ~info[other].is_authenticated

(***************************************************************************)
(* Properties of failed authentication (checked under SpecLogin).          *)
(***************************************************************************)
\* C19: authentication failures create nothing: an exchange_qr_token call
\* that fails returns no token and leaves the session-token set unchanged,
\* and a HELLO whose token is missing or not in the set is answered with
\* AUTH_REQUIRED only and leaves is_authenticated and active_profile_id as
\* they were: false and unset on a connection that had not authenticated.
C19_FailuresCreateNothing ==
    [][/\ \A t \in Presentable :
             (exchange_qr_token(t) /\ ExchangeReason(qr_tokens, t, now) # "Ok")
                => /\ tokens' = tokens /\ issued' = issued
                   /\ lastCall'.ret = None
       /\ \A ws \in Sockets, token \in Presentable \cup {None},
             version \in VersionArgs :
             (RecvHello(ws, token, version) /\ ~validate_token(token))
                => /\ tokens' = tokens
                   /\ ep'[ws] = Await("single",
                                      create_message("AUTH_REQUIRED", None), None)
                   /\ info'[ws].is_authenticated = info[ws].is_authenticated
                   /\ info'[ws].active_profile_id = info[ws].active_profile_id
                   /\ \A other \in Sockets \ {ws} : info'[other] = info[other]
                   /\ Unauthenticated(ws)
                         => /\ ~info'[ws].is_authenticated
                            /\ info'[ws].active_profile_id = None
       /\ \A ws \in Sockets :
             (HandlerSend(ws) /\ sent'.type = "AUTH_REQUIRED")
                => /\ sent'.to = ws /\ sent'.log = <<"AUTH_REQUIRED">>
                   /\ ep'[ws].pc = "recv"
                   /\ info' = info /\ tokens' = tokens]_vars

\* with a session token in the set, an exchange has just failed, and a HELLO
\* presenting something else than a session token has been answered with
\* AUTH_REQUIRED alone on a connection that is still unauthenticated
C19_Witness ==
    /\ tokens # {}
    /\ lastCall.op = "exchange_qr_token" /\ lastCall.ret = None
    /\ sent.type = "AUTH_REQUIRED" /\ sent.log = <<"AUTH_REQUIRED">>
    /\ Unauthenticated(sent.to)
    /\ info[sent.to].active_profile_id = None
    /\ ep[sent.to].pc = "recv"

\* C20: a protocol error (a frame that is no JSON text, a JSON value that is
\* no envelope object, a payload of the wrong shape, or a privileged message
\* on an unauthenticated connection) is answered with an ERROR message to
\* the offending connection only; neither the frame nor the reply removes a
\* connection from the registry or closes a socket.
C20_ProtocolErrorAnswered ==
    [][\A ws \in Sockets :
          /\ (\/ \E kind \in MalformedKinds : RecvMalformed(ws, kind)
              \/ Unauthenticated(ws) /\ GatedFrame(ws))
                => /\ ErrorReply(ws)
                   /\ \A other \in Sockets \ {ws} : ep'[other] = ep[other]
                   /\ connections' = connections /\ sock' = sock
                   /\ info' = info /\ sent'.to = None
          /\ (HandlerSend(ws) /\ sent'.type = "ERROR")
                => /\ sent'.to = ws /\ sent'.log = <<"ERROR">>
                   /\ ep'[ws].pc = "recv"
                   /\ \A other \in Sockets \ {ws} : ep'[other] = ep[other]
                   /\ connections' = connections /\ sock' = sock
                   /\ info' = info]_vars

\* a frame that is no JSON has been answered with ERROR; the offender and
\* another connection are still registered and their sockets open
C20_Witness ==
    \E other \in Sockets :
       /\ sent.type = "ERROR" /\ sent.at = "json_error"
       /\ sent.arg = "Invalid JSON"
       /\ other # sent.to
       /\ Registered(sent.to) /\ sock[sent.to] = "open"
       /\ ep[sent.to].pc = "recv"
       /\ Registered(other) /\ sock[other] = "open"

(***************************************************************************)
(* Properties of the request handlers (checked under Spec).                *)
(***************************************************************************)
\* a BUTTON_PRESSED for a button id that the sender's active profile lacks
UnknownButtonPressed(ws, button_id) ==
    /\ RecvButtonPressed(ws, button_id)
    /\ button_id # None
    /\ info[ws].active_profile_id # None
    /\ ~get_button_by_id(button_id, info[ws].active_profile_id)

\* C21 as stated: domain errors on an authenticated connection (an unknown
\* button id, an unknown profile id, an executor that fails) are reported
\* through the request's own response message, not through ERROR.
C21_DomainErrorsInResponse ==
    [][\A ws \in Sockets :
          _is_authenticated(ws) =>
             /\ \A button_id \in ButtonArgs :
                   (\/ UnknownButtonPressed(ws, button_id)
                    \/ RecvButtonPressed(ws, button_id) /\ ep'[ws].loc = "error")
                      => ep'[ws].out.type = "ACTION_RESULT"
             /\ RecvSwitchProfile(ws, UnknownProfile)
                   => ep'[ws].out.type # "ERROR"]_vars

\* C21, amended: on an authenticated connection an executor failure is
\* reported in the ACTION_RESULT of the request (status "error", naming the
\* button), while an unknown button id and an unknown profile id are
\* answered with the generic ERROR message and change nothing.
C21_DomainErrorChannels ==
    [][\A ws \in Sockets :
          _is_authenticated(ws) =>
             /\ \A button_id \in ButtonArgs :
                   /\ UnknownButtonPressed(ws, button_id)
                         => /\ ErrorReply(ws)
                            /\ ep'[ws].out.arg = "Button not found"
                            /\ ep'[ws].loc = None /\ info' = info
                   /\ (RecvButtonPressed(ws, button_id) /\ ep'[ws].loc = "error")
                         => /\ ep'[ws].pc = "send"
                            /\ ep'[ws].out =
                                  create_message("ACTION_RESULT", button_id)
                            /\ info' = info
             /\ RecvSwitchProfile(ws, UnknownProfile)
                   => /\ ErrorReply(ws)
                      /\ ep'[ws].out.arg = "Profile not found"
                      /\ info' = info
             /\ (HandlerSend(ws) /\ ep[ws].loc = "error")
                   => /\ sent'.to = ws /\ sent'.type = "ACTION_RESULT"
                      /\ sent'.log = <<"ACTION_RESULT">>
                      /\ ep'[ws].pc = "recv"]_vars

\* the executor failed and the handler is about to report it in the
\* ACTION_RESULT for the button
C21_Witness ==
    \E ws \in Sockets :
       /\ _is_authenticated(ws)
       /\ ep[ws].pc = "send" /\ ep[ws].loc = "error"
       /\ ep[ws].out = create_message("ACTION_RESULT", "b1")
       /\ info[ws].active_profile_id = "A"

(***************************************************************************)
(* Properties of the button routes (checked under SpecButtons).            *)
(***************************************************************************)
\* C22: creating a button over HTTP with an id that already exists in the
\* resolved profile is rejected with 409, leaves the buttons table as it
\* was and triggers no broadcast; the same id can still be created in a
\* profile that does not hold it.
C22_DuplicateRejected ==
    [][\A button_id \in {"b1", "b2"}, label \in Labels,
          profile_id \in RouteProfileArgs :
          LET resolved_id == _resolve_profile_id(profile_id)
          IN  resolved_id # None =>
                 /\ \A action_ok \in BOOLEAN :
                       (/\ button_id \in DOMAIN buttons[resolved_id]
                        /\ create_button(button_id, label, action_ok, profile_id))
                          => /\ response'.status = 409
                             /\ buttons' = buttons
                             /\ bc' = bc /\ used' = used
                 /\ (/\ button_id \notin DOMAIN buttons[resolved_id]
                     /\ create_button(button_id, label, TRUE, profile_id))
                       => /\ response'.status = 200
                          /\ buttons'[resolved_id][button_id] = label
                          /\ \A p \in ProfileIds \ {resolved_id} :
                                buttons'[p] = buttons[p]]_vars

\* b1 was created in profile B next to the b1 of profile A, and a later
\* create of b1 with another label was answered 409 while a client is
\* connected: both rows are as they were stored
C22_Witness ==
    /\ response = [route |-> "create_button", status |-> 409]
    /\ "b1" \in DOMAIN buttons["A"] /\ buttons["A"]["b1"] = "First"
    /\ "b1" \in DOMAIN buttons["B"]
    /\ used.rounds = 1 /\ bc.op = "idle"
    /\ \E ws \in Sockets : _is_authenticated(ws)

(***************************************************************************)
(* Properties of the buttons fan-out (checked under SpecFanOut).           *)
(***************************************************************************)
\* a step of broadcast_buttons_update() without a profile id after its
\* first
FanOutGoesOn ==
    /\ bc.op = "buttons" /\ bc.arg = None
    /\ BroadcastSend \/ BroadcastSendFail

\* the snapshot entries among `before` that the call has passed over
FanOutSkipped(before) ==
    {ws \in Sockets : InSeq(before, ws) /\ ~InSeq(Ahead, ws)}

\* the entry the call stops at is authenticated and is about to be sent the
\* buttons list of its own active profile; a delivered send carries the
\* list the call prepared for that entry
FanOutOwnProfile(before) ==
    /\ Ahead # <<>> =>
          /\ bc'.op = "buttons" /\ bc'.arg = None
          /\ info[Head(Ahead)].is_authenticated
          /\ info[Head(Ahead)].active_profile_id # None
          /\ bc'.out = create_message("BUTTONS_LIST",
                                      info[Head(Ahead)].active_profile_id)
    /\ \A ws \in Sockets : InSeq(Ahead, ws) => InSeq(before, ws)
    /\ BroadcastSend
          => /\ sent'.to = Head(bc.todo) /\ sent'.type = "BUTTONS_LIST"
             /\ sent'.arg = bc.out.arg
    /\ info' = info

BroadcastSendsTo(ws) ==
    /\ info[ws].is_authenticated
    /\ bc.op = "buttons" => (bc.arg # None \/ info[ws].active_profile_id # None)

\* C24: a send failure on one connection during a broadcast, the stats
\* broadcast or the ping round does not abort the loop: nothing is raised,
\* and every other connection of the snapshot that the loop sends to is
\* still ahead of it.
C24_SendFailureDoesNotAbort ==
    [][/\ BroadcastSendFail
             => /\ sent'.to = None
                /\ connections' = connections /\ sock' = sock
                /\ \A ws \in Sockets :
                      (InSeq(Tail(bc.todo), ws) /\ BroadcastSendsTo(ws))
                         => /\ bc'.op = bc.op /\ bc'.arg = bc.arg
                            /\ InSeq(bc'.todo, ws)
                /\ (\A ws \in Sockets :
                       InSeq(Tail(bc.todo), ws) => ~BroadcastSendsTo(ws))
                      => bc' = BcIdle
       /\ StatsSendFail
             => /\ sent'.to = None
                /\ connections' = connections /\ sock' = sock
                /\ \A ws \in Sockets :
                      (InSeq(Tail(st.todo), ws) /\ info[ws].is_authenticated)
                         => st'.pc = "send" /\ InSeq(st'.todo, ws)
                /\ (\A ws \in Sockets :
                       InSeq(Tail(st.todo), ws) => ~info[ws].is_authenticated)
                      => st' = StIdle
       /\ HeartbeatPingFail
             => /\ sent'.to = None
                /\ hb' = [hb EXCEPT !.pc = "ping_closed"]
                /\ \A ws \in Sockets \ {Head(hb.todo)} :
                      /\ Registered(ws) => Registered(ws)'
                      /\ sock'[ws] = sock[ws]
       /\ HeartbeatPingClosed
             => IF Tail(hb.todo) # <<>>
                THEN hb' = [hb EXCEPT !.pc = "ping", !.todo = Tail(hb.todo)]
                ELSE hb'.pc \in {"sweep", "sleep"}]_vars

\* the ping to one connection failed (the round closed its socket) and the
\* ping to the next connection of the snapshot was delivered all the same
C24_Witness ==
    \E first \in Sockets, second \in Sockets :
       /\ first # second
       /\ sent.by = "ping" /\ sent.to = second
       /\ Registered(second) /\ sock[second] = "open"
       /\ ~Registered(first) /\ sock[first] = "closed"
       /\ now - info[first].last_pong <= PONG_TIMEOUT_SECONDS

(***************************************************************************)
(* Properties of the endpoint task (checked under Spec).                   *)
(***************************************************************************)
\* C25: the messages of one connection are handled in arrival order: the
\* handling of a frame starts only when the endpoint task is back in
\* receive_text, and while a handler is sending its replies the replies
\* sent on its behalf are those of the one frame it handles.
C25_OneFrameAtATime ==
    [][\A ws \in Sockets :
          /\ (used'.frames # used.frames /\ ep'[ws] # ep[ws])
                => /\ ep[ws].pc = "recv"
                   /\ ep'[ws].pc \in {"recv", "send"}
                   /\ ep'[ws].log = <<>>
          /\ (ep[ws].pc = "send" /\ ep'[ws] # ep[ws])
                => /\ used'.frames = used.frames
                   /\ \/ ep'[ws].pc \in {"recv", "crashed", "ended"}
                      \/ /\ ep'[ws].pc = "send"
                         /\ ep'[ws].log = Append(ep[ws].log, ep[ws].out.type)
          /\ (sent'.by = "handler" /\ sent'.to = ws)
                => /\ ep[ws].pc = "send"
                   /\ sent'.log = Append(ep[ws].log, sent'.type)]_vars

\* the second frame of a connection, a switch-profile, has been answered
\* with its two replies after the hello before it was answered in full
C25_Witness ==
    \E ws \in Sockets :
       /\ used.frames = 2
       /\ \A other \in Sockets \ {ws} : sock[other] = "new"
       /\ sent.by = "handler" /\ sent.to = ws /\ sent.auth
       /\ sent.log = <<"BUTTONS_LIST", "PROFILE_SWITCHED">>
       /\ ep[ws].pc = "recv"

\* C26: removing a connection by disconnect or by _close_connection leaves
\* the registry entry of every other connection present and unchanged and
\* does not touch the other connections' sockets and endpoint tasks.
C26_RemovalIsLocal ==
    [][\A ws \in Sockets :
          (Registered(ws) /\ (Disconnects(ws) \/ Closes(ws)))
             => /\ ~Registered(ws)'
                /\ \A other \in Sockets \ {ws} :
                      /\ Registered(other)' = Registered(other)
                      /\ info'[other] = info[other]
                      /\ sock'[other] = sock[other]
                      /\ ep'[other] = ep[other]
                /\ SelectSeq(connections, LAMBDA c : c # ws) = connections']_vars

\* the later connection was closed and unregistered by the heartbeat while
\* the earlier one is registered, authenticated and in the middle of a
\* handler
C26_Witness ==
    /\ ~Registered(SocketOrder[2]) /\ sock[SocketOrder[2]] = "closed"
    /\ Registered(SocketOrder[1])
    /\ info[SocketOrder[1]].is_authenticated
    /\ ep[SocketOrder[1]].pc = "send"

(***************************************************************************)
(* Properties of the message handlers (checked under Spec).                *)
(***************************************************************************)
\* C27: a switch-profile on an authenticated connection with a missing or
\* unknown profileId is answered with an error and leaves active_profile_id
\* unchanged; with a known profileId it sets active_profile_id and is
\* answered with the buttons list of the new profile and then
\* profile-switched.
C27_SwitchProfileOutcomes ==
    [][\A ws \in Sockets :
          /\ \A profile_id \in ProfileArgs :
                (RecvSwitchProfile(ws, profile_id) /\ _is_authenticated(ws))
                   => IF profile_id = None \/ ~ProfileExists(profile_id)
                      THEN /\ ep'[ws].pc = "send" /\ ep'[ws].at = "single"
                           /\ ep'[ws].out.type = "ERROR"
                           /\ info' = info
                      ELSE /\ info'[ws].active_profile_id = profile_id
                           /\ ep'[ws].pc = "send"
                           /\ ep'[ws].out = create_message("BUTTONS_LIST", profile_id)
                           /\ ep'[ws].log = <<>>
          /\ (HandlerSend(ws) /\ ep[ws].at = "switch_buttons")
                => /\ sent'.type = "BUTTONS_LIST" /\ sent'.log = <<"BUTTONS_LIST">>
                   /\ ep'[ws].pc = "send"
                   /\ ep'[ws].out = create_message("PROFILE_SWITCHED", ep[ws].loc)
                   /\ ep[ws].out.arg = ep[ws].loc
          /\ (HandlerSend(ws) /\ ep[ws].out.type = "PROFILE_SWITCHED")
                => /\ sent'.log = <<"BUTTONS_LIST", "PROFILE_SWITCHED">>
                   /\ sent'.arg = ep[ws].loc
                   /\ ep'[ws] = EpIdle("recv")
          /\ (HandlerSend(ws) /\ ep[ws].out.type = "ERROR" /\ ep[ws].at = "single")
                => sent'.log = <<"ERROR">> /\ ep'[ws] = EpIdle("recv")]_vars

\* a connection that authenticated on profile A has switched to B and has
\* been sent the buttons list of B and then profile-switched
C27_Witness ==
    \E ws \in Sockets :
       /\ sent.by = "handler" /\ sent.to = ws
       /\ sent.type = "PROFILE_SWITCHED" /\ sent.arg = "B"
       /\ sent.log = <<"BUTTONS_LIST", "PROFILE_SWITCHED">>
       /\ info[ws].active_profile_id = "B"
       /\ get_default_profile = "A"
       /\ bc.op = "idle" /\ used.rounds = 0

\* C28: a button-pressed message calls the executor once when the button id
\* exists in the sender's own active profile and not at all otherwise
\* (unauthenticated sender, missing buttonId, no active profile, a button
\* of another profile only), and the handler sends one reply in every case.
C28_ExecutesOncePerOwnButton ==
    [][\A ws \in Sockets :
          /\ \A button_id \in ButtonArgs :
                RecvButtonPressed(ws, button_id)
                   => /\ (ep'[ws].loc \in ExecuteOutcomes)
                            <=> /\ _is_authenticated(ws)
                                /\ button_id # None
                                /\ info[ws].active_profile_id \in DOMAIN buttons
                                /\ button_id \in
                                      DOMAIN buttons[info[ws].active_profile_id]
                      /\ ep'[ws].loc \in ExecuteOutcomes \cup {None}
                      /\ (ep'[ws].loc = None) <=> (ep'[ws].out.type = "ERROR")
                      /\ (ep'[ws].loc # None)
                            => ep'[ws].out = create_message("ACTION_RESULT", button_id)
                      /\ ep'[ws].pc = "send" /\ ep'[ws].at = "single"
                      /\ ep'[ws].log = <<>>
                      /\ buttons' = buttons /\ info' = info
          /\ (HandlerSend(ws) /\ ep[ws].at = "single" /\ ep[ws].log = <<>>)
                => /\ sent'.log = <<ep[ws].out.type>>
                   /\ ep'[ws] = EpIdle("recv")]_vars

\* the press of a button of the sender's active profile has been answered
\* with the one ACTION_RESULT of the one execute call
C28_Witness ==
    \E ws \in Sockets :
       /\ sent.by = "handler" /\ sent.to = ws
       /\ sent.type = "ACTION_RESULT" /\ sent.arg = "b1"
       /\ sent.log = <<"ACTION_RESULT">>
       /\ info[ws].active_profile_id = "A"
       /\ "b1" \in DOMAIN buttons["A"]
       /\ ep[ws] = EpIdle("recv")

(***************************************************************************)
(* Properties of the background tasks (checked under SpecLifecycle).       *)
(***************************************************************************)
\* C29: however often start_heartbeat is called, at most one ping loop and
\* one stats loop run (a further call changes nothing); once stop_heartbeat
\* has returned both loops have ended, both were cancelled by that call,
\* and no ping and no system-stats message is sent any more.
C29_OneLoopEachUntilStopped ==
    [][/\ tasks'.ping_loops <= 1 /\ tasks'.stats_loops <= 1
       /\ (start_heartbeat /\ tasks.starts > 0)
             => /\ hb' = hb /\ st' = st
                /\ tasks'.ping_loops = tasks.ping_loops
                /\ tasks'.stats_loops = tasks.stats_loops
       /\ tasks'.stop = "returned"
             => /\ tasks'.ping_loops = 0 /\ tasks'.stats_loops = 0
                /\ hb'.pc = "cancelled" /\ st'.pc = "cancelled"
                /\ tasks'.cancelled = {"heartbeat", "stats"}
                /\ ~tasks'.heartbeat_task /\ ~tasks'.stats_task
                /\ sent'.by \notin {"ping", "stats"}]_vars

\* start_heartbeat was called twice, the ping loop ran (it closed a
\* connection) and stop_heartbeat has returned while a connection is
\* still registered
C29_Witness ==
    /\ tasks.starts = 2
    /\ tasks.stop = "returned"
    /\ \E ws \in Sockets : sock[ws] = "closed"
    /\ \E ws \in Sockets : Registered(ws) /\ info[ws].is_authenticated

(***************************************************************************)
(* Properties of the token file (checked under SpecRestart).               *)
(***************************************************************************)
\* C30: after every completed issue_token, revoke_token and successful
\* exchange_qr_token the token set stored in the token file equals the set
\* in memory (no file yet, before the first token is issued, stores no
\* token), so an AuthService constructed afterwards on the same file
\* holds exactly the session tokens that were valid before, and none of
\* the QR tokens.
C30_FileMatchesMemory ==
    [][/\ (\/ issue_token
           \/ \E t \in Presentable : revoke_token(t)
           \/ \E t \in Presentable : exchange_qr_token(t) /\ lastCall'.ret # None)
             => /\ {token_file'.data[i] : i \in 1..Len(token_file'.data)} = tokens'
                /\ Len(token_file'.data) = Cardinality(tokens')
                /\ token_file'.exists \/ (tokens' = {} /\ issued' = {})
       /\ Restart
             => /\ tokens' = tokens
                /\ qr_tokens' = NoQrTokens /\ current_qr_token' = None
                /\ \A t \in DOMAIN qr_tokens :
                      ExchangeReason(qr_tokens', t, now) # "Ok"]_vars

\* a restart after an issue and a revocation: the surviving session token
\* is still valid, the revoked one is not, and the QR token that was
\* outstanding is gone
C30_Witness ==
    /\ lastCall.op = "restart"
    /\ \E t \in issued : t \in tokens /\ validate_token(t)
    /\ \E t \in issued : t \in revoked /\ ~validate_token(t)
    /\ qr_history # <<>>
    /\ exchanges[qr_history[Len(qr_history)]] = 0
    /\ qr_tokens = NoQrTokens

\* C31: persisting the token set is an atomic overwrite: when the process
\* stops inside a save, the restart loads the complete set from before the
\* save or the complete set after it (the set with the new token, or
\* without the revoked one).
C31_AtomicOverwrite ==
    [][(lastCall'.op = "restart" /\ lastCall'.reason = "save")
          => \/ tokens' = tokens
             \/ /\ drawn' = drawn + 1
                /\ tokens' = tokens \cup {token_hex(drawn')}
             \/ /\ drawn' = drawn
                /\ \E token \in tokens : tokens' = tokens \ {token}]_vars

(***************************************************************************)
(* Properties of the HTTP routes (checked under SpecRoutes).               *)
(***************************************************************************)
\* the request was rejected: nothing stored changes, no broadcast is called
Rejected ==
    /\ response'.status \in {400, 404, 409}
    /\ buttons' = buttons /\ profiles' = profiles
    /\ bc' = bc /\ used' = used /\ sent'.to = None

\* broadcast_buttons_update(resolved_id) was called on the changed table
ButtonsBroadcast(resolved_id) ==
    /\ response'.status = 200
    /\ used'.rounds = used.rounds + 1
    /\ bc'.op \in {"idle", "buttons"}
    /\ bc'.op = "buttons" => bc'.arg = resolved_id
    /\ \A ws \in Sockets :
          (Registered(ws) /\ info[ws].is_authenticated)
             => /\ bc'.op = "buttons"
                /\ \E i \in 1..Len(bc'.todo) : bc'.todo[i] = ws

\* broadcast_profiles_update was called
ProfilesBroadcast ==
    /\ used'.rounds = used.rounds + 1
    /\ bc'.op \in {"idle", "profiles"}
    /\ buttons' = buttons
    /\ \A ws \in Sockets :
          (Registered(ws) /\ info[ws].is_authenticated)
             => /\ bc'.op = "profiles"
                /\ \E i \in 1..Len(bc'.todo) : bc'.todo[i] = ws

\* the profile id a button route resolves for its "profileId"
Resolved(profile_id) ==
    IF profile_id # None THEN profile_id
    ELSE IF profiles # <<>> THEN profiles[1] ELSE None

\* C32: every successful button create, update, delete or reorder changes
\* the store and calls broadcast_buttons_update with the profile id it
\* resolved, every successful profile create, update or delete calls
\* broadcast_profiles_update, and a rejected request (400, 404, 409) changes
\* no stored entity and calls no broadcast.
C32_RoutesBroadcastTheirChange ==
    [][/\ \A button_id \in {"b1", "b2"}, profile_id \in RouteProfileArgs :
             /\ \A label \in Labels, action_ok \in BOOLEAN :
                   /\ (/\ response'.route = "create_button"
                       /\ create_button(button_id, label, action_ok, profile_id))
                         => \/ Rejected
                            \/ /\ ButtonsBroadcast(Resolved(profile_id))
                               /\ button_id \notin DOMAIN buttons[Resolved(profile_id)]
                               /\ buttons'[Resolved(profile_id)][button_id] = label
                   /\ (/\ response'.route = "update_button"
                       /\ update_button(button_id, label, action_ok, profile_id))
                         => \/ Rejected
                            \/ /\ ButtonsBroadcast(Resolved(profile_id))
                               /\ button_id \in DOMAIN buttons[Resolved(profile_id)]
                               /\ buttons'[Resolved(profile_id)][button_id] = label
             /\ (/\ response'.route = "delete_button"
                 /\ delete_button(button_id, profile_id))
                   => \/ Rejected
                      \/ /\ ButtonsBroadcast(Resolved(profile_id))
                         /\ button_id \in DOMAIN buttons[Resolved(profile_id)]
                         /\ button_id \notin DOMAIN buttons'[Resolved(profile_id)]
       /\ \A profile_id \in RouteProfileArgs :
             (response'.route = "reorder_buttons" /\ reorder_buttons(profile_id))
                => Rejected \/ ButtonsBroadcast(Resolved(profile_id))
       /\ \A profile_id \in ProfileIds :
             /\ (profiles' # profiles /\ CreateProfile(profile_id))
                   => ProfilesBroadcast /\ ProfileExists(profile_id)'
             /\ (used' # used /\ UpdateProfile(profile_id))
                   => ProfilesBroadcast /\ profiles' = profiles
             /\ (profiles' # profiles /\ DeleteProfile(profile_id))
                   => ProfilesBroadcast /\ ~ProfileExists(profile_id)'
             /\ \A route \in {"update_profile", "delete_profile"} :
                   ProfileNotFound(route, profile_id) => Rejected]_vars

\* an update of a button of profile A has stored the new label and its
\* broadcast, for A, is on its way to a connection
C32_Witness ==
    /\ response = [route |-> "update_button", status |-> 200]
    /\ "b1" \in DOMAIN buttons["A"] /\ buttons["A"]["b1"] = "Second"
    /\ bc.op = "buttons" /\ bc.arg = "A"
    /\ \E ws \in Sockets : Registered(ws) /\ info[ws].is_authenticated

(***************************************************************************)
(* Properties of interleaved handlers and broadcasts (checked under Spec). *)
(***************************************************************************)
\* a profile-switched message for ws is still to come: from the switch
\* handler `e` of its endpoint or from the broadcast_profile_switch `b`
SwitchPending(e, b, ws) ==
    \/ e.pc = "send" /\ (e.at = "switch_buttons" \/ e.out.type = "PROFILE_SWITCHED")
    \/ /\ b.op = "switch"
       /\ \E i \in 1..Len(b.todo) :
             b.todo[i] = ws /\ (i = 1 => b.out.type = "PROFILE_SWITCHED")

\* C33: when the switch-profile handler of a connection and a
\* broadcast_profile_switch are interleaved at their sends, the last
\* profile-switched message delivered to the connection (none of the two
\* has another one to send to it) names the connection's active_profile_id.
C33_LastSwitchNamesActiveProfile ==
    [][\A ws \in Sockets :
          (/\ sent'.to = ws /\ sent'.type = "PROFILE_SWITCHED"
           /\ Registered(ws)'
           /\ ~SwitchPending(ep'[ws], bc', ws))
             => sent'.arg = info'[ws].active_profile_id]_vars

(***************************************************************************)
(* Properties of concurrent QR token calls (checked under SpecQrRace).     *)
(***************************************************************************)
\* C34: when issue_qr_token is called concurrently from the QR refresh
\* thread and from the HTTP route, or races with exchange_qr_token, then
\* once the calls have returned the exchangeable map holds at most one
\* token and no superseded token can be exchanged.
C34_OneExchangeableQrToken ==
    (\A caller \in Callers : threads[caller].pc = "idle")
       => /\ Cardinality(DOMAIN qr_tokens) <= 1
          /\ \A t \in superseded : ExchangeReason(qr_tokens, t, now) # "Ok"

(***************************************************************************)
(* Properties of the registry against the heartbeat, the profile store,    *)
(* the broadcasts and revocation.                                          *)
(***************************************************************************)
\* C35: with the heartbeat loop running, a registered connection whose
\* socket is broken is removed by the next ping round: the round starts
\* from every registered connection, and a connection leaves the round
\* either pinged on an open socket or unregistered, whether or not its
\* receive loop has called disconnect (checked under Spec, where broadcasts
\* swallow their send failures).
C35_BrokenConnectionGoneByNextTick ==
    [][/\ (hb.pc = "sleep" /\ hb'.pc # "sleep")
             => \A ws \in Sockets : Registered(ws) => InSeq(hb'.todo, ws)
       /\ \A ws \in Sockets :
             (/\ hb.pc \in {"ping", "ping_closed"}
              /\ InSeq(hb.todo, ws)
              /\ ~(hb'.pc \in {"ping", "ping_closed"} /\ InSeq(hb'.todo, ws)))
                => \/ ~Registered(ws)'
                   \/ sock[ws] = "open" /\ sent'.to = ws /\ sent'.type = "PING"]_vars

C35_Witness ==
    /\ hb.pc = "ping_closed"
    /\ sock[Head(hb.todo)] = "closed"
    /\ ~Registered(Head(hb.todo))
    /\ ep[Head(hb.todo)].pc # "ended"

\* C36: in every reachable state the active_profile_id of every registered
\* connection is null or the id of a profile of the store, also after a
\* profile was deleted through DELETE /api/profiles/{profile_id} (checked
\* under SpecProfiles).
C36_ActiveProfileExists ==
    \A ws \in Sockets :
       Registered(ws)
          => \/ info[ws].active_profile_id = None
             \/ ProfileExists(info[ws].active_profile_id)

\* C37: a step of a broadcast (broadcast_buttons_update,
\* broadcast_profiles_update, broadcast_profile_switch) or of the stats
\* broadcast leaves the registry and every is_authenticated flag as they
\* are, also when its send fails and when connections were registered or
\* removed while it was suspended; an active_profile_id changes only in a
\* step of broadcast_profile_switch, to the profile it announces.
C37_BroadcastsLeaveRegistry ==
    [][(bc' # bc \/ st' # st)
          => /\ connections' = connections
             /\ \A ws \in Sockets :
                   /\ info'[ws].is_authenticated = info[ws].is_authenticated
                   /\ info'[ws].active_profile_id # info[ws].active_profile_id
                         => /\ bc'.op = "switch"
                            /\ bc' # bc
                            /\ info'[ws].active_profile_id = bc'.arg]_vars

C37_Witness ==
    /\ bc.op = "switch"
    /\ ~Registered(Head(bc.todo))
    /\ sent.by = "switch"
    /\ sent.to # Head(bc.todo)
    /\ info[Head(bc.todo)].active_profile_id = bc.arg
    /\ bc.arg # get_default_profile

\* C38: the last_pong of a connection, set when the connection is accepted,
\* is changed only by the handling of a pong message from that connection:
\* no other inbound message and no broadcast, stats or heartbeat step
\* refreshes it, so a connection that sends requests but no pong is closed
\* by the liveness sweep as one that sends nothing (checked under Spec).
C38_OnlyPongRefreshesLastPong ==
    [][\A ws \in Sockets :
          info'[ws].last_pong # info[ws].last_pong
             => \/ Connect(ws)
                \/ RecvPong(ws) /\ Registered(ws)]_vars

C38_Witness ==
    /\ sent.type = "PING"
    /\ sent.auth
    /\ sock[sent.to] = "closed"
    /\ ~Registered(sent.to)
    /\ info[sent.to].last_pong = 0
    /\ info[sent.to].active_profile_id # get_default_profile
    /\ now > PONG_TIMEOUT_SECONDS

\* C39: revoke_token(t) leaves the registry, the connections' flags and
\* profiles, the sockets, the handlers and the stores as they are; a
\* registered connection that is authenticated stays so whatever is
\* revoked; with no valid token left it is still answered (a list query
\* gets its buttons list) and is still in the snapshot of a broadcast;
\* a handshake that presents a revoked token is answered AUTH_REQUIRED and
\* authenticates nothing (checked under SpecRevoke).
C39_RevocationLeavesConnections ==
    [][/\ tokens' # tokens
          => /\ tokens' \subseteq tokens
             /\ UNCHANGED <<connections, info, sock, ep, bc, profiles, buttons>>
       /\ \A ws \in Sockets :
             /\ (Registered(ws) /\ info[ws].is_authenticated /\ Registered(ws)')
                   => /\ info'[ws].is_authenticated
                      /\ tokens' # tokens
                            => info'[ws].active_profile_id = info[ws].active_profile_id
             /\ (/\ tokens = {}
                 /\ Registered(ws) /\ info[ws].is_authenticated
                 /\ ep[ws].pc = "recv" /\ ep'[ws].pc = "send"
                 /\ RecvGetButtons(ws))
                   => ep'[ws].out = create_message("BUTTONS_LIST", info[ws].active_profile_id)
             /\ (/\ tokens = {}
                 /\ Registered(ws) /\ info[ws].is_authenticated
                 /\ bc.op = "idle" /\ bc'.op = "profiles")
                   => InSeq(bc'.todo, ws)
             /\ \A t \in revoked \ tokens, version \in VersionArgs :
                   (/\ ep[ws].pc = "recv" /\ ep'[ws].pc = "send"
                    /\ Registered(ws)
                    /\ RecvHello(ws, t, version))
                      => /\ ep'[ws].out.type = "AUTH_REQUIRED"
                         /\ info'[ws].is_authenticated = info[ws].is_authenticated]_vars

C39_Witness ==
    \E ws \in Sockets, other \in Sockets :
       /\ tokens = {} /\ token_hex(1) \in revoked
       /\ Registered(ws) /\ info[ws].is_authenticated
       /\ info[ws].active_profile_id # None
       /\ sent.to = ws /\ sent.by = "profiles"
       /\ Registered(other) /\ ~info[other].is_authenticated
       /\ ep[other].pc = "send" /\ ep[other].out.type = "AUTH_REQUIRED"

\* C40: a successful handshake leaves the connection on the profile it had,
\* if it had one, and otherwise binds it to the store's default profile
\* (none on an empty store): a repeated handshake keeps a profile the
\* connection was switched to; a connection that is not authenticated has
\* no profile, broadcast_profile_switch passing it by, so one that
\* authenticates after a switch to B gets the default (checked under Spec).
C40_HandshakeBindsPriorOrDefault ==
    [][\A ws \in Sockets :
          /\ (/\ ep[ws].pc = "recv"
              /\ ep'[ws].pc = "send" /\ ep'[ws].at = "hello_welcome")
                => /\ info'[ws].is_authenticated
                   /\ info'[ws].active_profile_id =
                         IF info[ws].active_profile_id # None
                         THEN info[ws].active_profile_id
                         ELSE get_default_profile
          /\ (Registered(ws)' /\ ~info'[ws].is_authenticated)
                => info'[ws].active_profile_id = None]_vars

C40_Witness ==
    \E ws \in Sockets, other \in Sockets :
       /\ Registered(ws) /\ info[ws].is_authenticated
       /\ info[ws].active_profile_id = "B"
       /\ bc.op = "idle" /\ used.rounds = 1
       /\ get_default_profile = "A"
       /\ Registered(other)
       /\ ep[other].pc = "send" /\ ep[other].at = "hello_welcome"
       /\ info[other].active_profile_id = "A"

====
